---- MODULE Spec2Model ----
(***************************************************************************)
(* Model of the inline Markdown live-preview highlighter of reqstudio      *)
(* (core/highlighter.py, class LivePreviewHighlighter) and of the host     *)
(* glue that drives it (app.py, MainWindow).                               *)
(*                                                                         *)
(* A line of text is a sequence of one-character strings; offsets are      *)
(* 0-based as in the source: At(text, i) is text[i].                        *)
(***************************************************************************)
EXTENDS Integers, Sequences, FiniteSets, TLC

VARIABLES
    \* ---- host / document level (app.py, the editor's QTextDocument) ----
    doc,                  \* the document: a sequence of lines (blocks)
    cursor,               \* the editor's text cursor, an absolute offset
    live_highlighter,     \* TRUE iff MainWindow.live_highlighter is not None
    caret_pos,            \* LivePreviewHighlighter.caret_pos
    userState,            \* per block: the block state (QTextBlock.userState)
    formats,              \* per block: the setFormat calls of its last highlight
    inline_prev_blocknum, \* MainWindow._inline_prev_blocknum
    last_event,           \* history: the last handler and the blocks it
                          \* passed to highlightBlock, in call order
    \* ---- the window's view actions and panes (app.py, MainWindow) ----
    act_inline_live,      \* 'Live Inline Markdown' is checked
    act_live_preview,     \* 'Realtime Markdown Preview' is checked
    act_split_view,       \* 'Split View (Preview)' is checked
    act_toggle_md,        \* 'Syntax highlighting' is checked
    editor_visible,       \* self.editor.isVisible()
    preview_visible,      \* self.preview.isVisible()
    highlighter_attached, \* self.highlighter (MarkdownHighlighter) has the
                          \* editor's document
    preview_src,          \* the text update_preview rendered last, <<>> before
    \* ---- one run of 'git req verify' (git-req.py) and the repository it reads ----
    v_repo,               \* the command runs inside a git work tree
    v_log,                \* the result of git log for HEAD's subject: returncode, stdout
    v_refs,               \* the lines git for-each-ref prints, latest tagger date first
    v_ancestors,          \* the tags git merge-base finds to be ancestors of HEAD
    v_pc,                 \* where the run is: "repo", "head", "baseline", "ancestor", "done"
    v_tag,                \* the local variable tag of cmd_verify, <<>> for None
    v_exit,               \* the exit status, -1 while the command runs
    v_stdout,             \* the lines printed
    v_stderr,             \* the lines printed to the error stream
    \* ---- one call of detect_srs_ids (utils.py) ----
    d_text,               \* the argument text
    d_pattern,            \* the argument pattern
    d_called,             \* the call has returned
    d_ids,                \* the list returned
    \* ---- the editor's document and its files (app.py, MainWindow) ----
    f_text,               \* self.editor.toPlainText()
    f_modified,           \* self.editor.document().isModified()
    f_workspace,          \* self.workspace is set
    f_current_file,       \* self.current_file is set
    f_disk,               \* the file at the path saved to: exists, text
    f_autosave,           \* the file at autosave_path: exists, text
    f_status_srs,         \* the SRS-IDs update_status showed last
    f_default_msg,        \* the message on_git_commit proposed last, <<>>
                          \* before the first
    f_saved,              \* history: a save succeeded and the text was not
                          \* changed since
    f_last,               \* history: the last handler, whether it asked the
                          \* user to save, whether it wrote the autosave, and
                          \* f_saved when it started (clean)
    \* ---- one block seen through the highlighter's interface ----
    l_text,               \* the block's text
    l_block_pos,          \* currentBlock().position()
    l_prev_state,         \* previousBlockState()
    l_out,                \* the block's stored result: NoOut or [anns, state]
    l_calls               \* history: the number of times the block was reprocessed
                          \* since caret_pos was last set (l_out is stale at 0)

vars == <<doc, cursor, live_highlighter, caret_pos, userState, formats,
          inline_prev_blocknum, last_event,
          act_inline_live, act_live_preview, act_split_view, act_toggle_md,
          editor_visible, preview_visible, highlighter_attached, preview_src,
          v_repo, v_log, v_refs, v_ancestors, v_pc, v_tag, v_exit,
          v_stdout, v_stderr,
          d_text, d_pattern, d_called, d_ids,
          f_text, f_modified, f_workspace, f_current_file, f_disk, f_autosave,
          f_status_srs, f_default_msg, f_saved, f_last,
          l_text, l_block_pos, l_prev_state, l_out, l_calls>>

verifyVars == <<v_repo, v_log, v_refs, v_ancestors, v_pc, v_tag, v_exit,
                v_stdout, v_stderr>>

detectVars == <<d_text, d_pattern, d_called, d_ids>>

fileVars == <<f_text, f_modified, f_workspace, f_current_file, f_disk, f_autosave,
              f_status_srs, f_default_msg, f_saved, f_last>>

windowVars == <<act_inline_live, act_live_preview, act_split_view, act_toggle_md,
                editor_visible, preview_visible, highlighter_attached, preview_src>>

lineInputs == <<l_text, l_block_pos, l_prev_state>>

----------------------------------------------------------------------------
(* Bounds of the model *)

\* longest text enumerated exhaustively over Alphabet
MaxLen == 3
\* largest number of leading spaces put in front of a sample line
MaxIndent == 4
\* largest number of lines of a document
MaxLines == 3
\* largest number of reprocessings of a block counted under one caret offset
MaxCalls == 2

----------------------------------------------------------------------------
(* Characters and the character classes of the regular expressions *)

Min(a, b) == IF a < b THEN a ELSE b
Max(a, b) == IF a > b THEN a ELSE b

\* the backtick character (a TLA+ string cannot hold it)
Backtick == "BACKTICK"

\* text[i], or "" when i is outside the text
At(text, i) == IF i >= 0 /\ i < Len(text) THEN text[i + 1] ELSE ""

\* the class of white space: the white space that can occur in a block
IsSpace(c) == c \in {" ", "\t"}
\* the class of digits
IsDigit(c) == c \in {"0", "1", "2", "3", "4", "5", "6", "7", "8", "9"}

\* number of characters from offset `from` on that are white space 
RECURSIVE SpaceRun(_, _)
SpaceRun(text, from) ==
    IF IsSpace(At(text, from)) THEN 1 + SpaceRun(text, from + 1) ELSE 0

\* number of characters from offset `from` on that equal c
RECURSIVE CharRun(_, _, _)
CharRun(text, from, c) ==
    IF At(text, from) = c THEN 1 + CharRun(text, from + 1, c) ELSE 0

\* number of characters from offset `from` on that are digits 
RECURSIVE DigitRun(_, _)
DigitRun(text, from) ==
    IF IsDigit(At(text, from)) THEN 1 + DigitRun(text, from + 1) ELSE 0

----------------------------------------------------------------------------
(* Formats and setFormat calls *)

\* the size table off by one level: level 1 gets the size of level 2
h_sizes_shifted ==
    [level \in 1..6 |->
        CASE level = 1 -> 18 [] level = 2 -> 16 [] level = 3 -> 14
          [] level = 4 -> 13 [] OTHER -> 12]

\* the point sizes of heading levels 1..6
h_sizes == [level \in 1..6 |->
              CASE level = 1 -> 22 [] level = 2 -> 18 [] level = 3 -> 16
                [] level = 4 -> 14 [] level = 5 -> 13 [] OTHER -> 12]

\* one call setFormat(start, count, fmt): fmt names the format object, size is
\* the point size of a heading format (0 otherwise), rule the method calling
setFormat(start, count, fmt, size, rule) ==
    [start |-> start, count |-> count, fmt |-> fmt, size |-> size, rule |-> rule]

----------------------------------------------------------------------------
(* The regular expressions of LivePreviewHighlighter *)

\* fence_rx: any white space from the line start, then three backticks
fence_rx(text) ==
    LET k == SpaceRun(text, 0)
    IN  At(text, k) = Backtick /\ At(text, k + 1) = Backtick /\ At(text, k + 2) = Backtick

\* the heading pattern: 0-3 white space, 1-6 hashes, an optional white space,
\* the rest; the lengths of the four captures
rx_heading(text) ==
    LET k == SpaceRun(text, 0)
        h == Min(6, CharRun(text, k, "#"))
        sp == IF IsSpace(At(text, k + h)) THEN 1 ELSE 0
    IN  [hasMatch |-> k <= 3 /\ h >= 1,
         indent |-> k, hashes |-> h, space |-> sp,
         content |-> Len(text) - (k + h + sp)]

\* rx_ul without its anchor at the line start: the marker is searched anywhere
\* in the line
rx_ul_unanchored(text) ==
    LET P == {p \in 0..(Len(text) - 1) :
                 At(text, p) \in {"-", "*"} /\ IsSpace(At(text, p + 1))}
    IN  [hasMatch |-> P # {},
         indent |-> IF P = {} THEN 0 ELSE CHOOSE p \in P : \A q \in P : p <= q]

\* rx_ul: 0-3 white space, a dash or a star, one or more white space, the rest
rx_ul(text) ==
    LET k == SpaceRun(text, 0)
    IN  [hasMatch |-> k <= 3 /\ At(text, k) \in {"-", "*"} /\ IsSpace(At(text, k + 1)),
         indent |-> k]

\* rx_ol: 0-3 white space, digits, a dot or a parenthesis, white space, the rest
rx_ol(text) ==
    LET k == SpaceRun(text, 0)
        d == DigitRun(text, k)
    IN  [hasMatch |-> k <= 3 /\ d >= 1 /\ At(text, k + d) \in {".", ")"}
                        /\ IsSpace(At(text, k + d + 1)),
         indent |-> k, digits |-> d]

\* the blockquote pattern: 0-3 white space, >, an optional white space, the rest
rx_quote(text) ==
    LET k == SpaceRun(text, 0)
        sp == IF IsSpace(At(text, k + 1)) THEN 1 ELSE 0
    IN  [hasMatch |-> k <= 3 /\ At(text, k) = ">",
         indent |-> k,
         rest |-> Len(text) - (k + 1 + sp)]

\* A match of an emphasis pattern: [a, b) the whole match, [s1, s1 + l1) group 1.
NoMatch == [hasMatch |-> FALSE, a |-> 0, b |-> 0, s1 |-> 0, l1 |-> 0]
Match(a, b, s1, l1) == [hasMatch |-> TRUE, a |-> a, b |-> b, s1 |-> s1, l1 |-> l1]

\* rx_bold anchored at offset p: two stars, a character that is no star, a lazy
\* run that stops at the first two stars
rx_bold_at(text, p) ==
    IF At(text, p) = "*" /\ At(text, p + 1) = "*"
       /\ p + 2 < Len(text) /\ At(text, p + 2) # "*"
    THEN LET Q == {q \in (p + 3)..(Len(text) - 2) :
                      At(text, q) = "*" /\ At(text, q + 1) = "*"}
         IN  IF Q = {} THEN NoMatch
             ELSE LET q == CHOOSE x \in Q : \A y \in Q : x <= y
                  IN  Match(p, q + 2, p + 2, q - (p + 2))
    ELSE NoMatch

\* rx_italic anchored at offset p: a star not preceded by a star, a character
\* that is no star, a lazy run up to the first star not followed by a star
rx_italic_at(text, p) ==
    IF At(text, p) = "*" /\ At(text, p - 1) # "*"
       /\ p + 1 < Len(text) /\ At(text, p + 1) \notin {"*", "\n"}
    THEN LET Q == {q \in (p + 2)..(Len(text) - 1) :
                      At(text, q) = "*" /\ At(text, q + 1) # "*"}
         IN  IF Q = {} THEN NoMatch
             ELSE LET q == CHOOSE x \in Q : \A y \in Q : x <= y
                  IN  Match(p, q + 1, p + 1, q - (p + 1))
    ELSE NoMatch

\* rx_code anchored at offset p: a backtick, one or more characters that are
\* no backtick, a backtick
rx_code_at(text, p) ==
    IF At(text, p) = Backtick
    THEN LET Q == {q \in (p + 1)..(Len(text) - 1) : At(text, q) \in {Backtick, "\n"}}
         IN  IF Q = {} THEN NoMatch
             ELSE LET q == CHOOSE x \in Q : \A y \in Q : x <= y
                  IN  IF At(text, q) = Backtick /\ q >= p + 2
                      THEN Match(p, q + 1, p + 1, q - (p + 1))
                      ELSE NoMatch
    ELSE NoMatch

rx_at(kind, text, p) ==
    CASE kind = "bold" -> rx_bold_at(text, p)
      [] kind = "italic" -> rx_italic_at(text, p)
      [] OTHER -> rx_code_at(text, p)

\* rx.globalMatch(text): the matches from offset p on, leftmost first, each
\* search resuming where the previous match ended
RECURSIVE globalMatch(_, _, _)
globalMatch(kind, text, p) ==
    IF p >= Len(text) THEN <<>>
    ELSE LET m == rx_at(kind, text, p)
         IN  IF m.hasMatch THEN <<m>> \o globalMatch(kind, text, m.b)
             ELSE globalMatch(kind, text, p + 1)

----------------------------------------------------------------------------
(* LivePreviewHighlighter: the per-line rules.  Each returns the sequence of *)
(* setFormat calls it makes, in call order; caret is self.caret_pos.         *)

\* apply_heading with the marker test closed at its end (<= for <)
apply_heading_closedEnd(text, block_pos, caret) ==
    LET m == rx_heading(text)
        level == Min(6, m.hashes)
        start_hash == m.indent
        end_hash == start_hash + m.hashes + (IF m.space > 0 THEN 1 ELSE 0)
        caret_in_block == caret >= block_pos /\ caret <= block_pos + Len(text)
        caret_in_markers == caret_in_block
                            /\ block_pos + start_hash <= caret
                            /\ caret <= block_pos + end_hash
        content_start == end_hash
    IN  IF ~m.hasMatch THEN <<>>
        ELSE (IF ~caret_in_markers
              THEN <<setFormat(start_hash, end_hash - start_hash, "fmt_marker", 0, "heading")>>
              ELSE <<>>)
          \o (IF m.content > 0
              THEN <<setFormat(content_start, Max(0, Len(text) - content_start),
                               "fmt_heading", h_sizes[level], "heading")>>
              ELSE <<>>)

apply_heading(text, block_pos, caret) ==
    LET m == rx_heading(text)
        level == Min(6, m.hashes)
        start_hash == m.indent
        end_hash == start_hash + m.hashes + (IF m.space > 0 THEN 1 ELSE 0)
        caret_in_block == caret >= block_pos /\ caret <= block_pos + Len(text)
        caret_in_markers == caret_in_block
                            /\ block_pos + start_hash <= caret
                            /\ caret < block_pos + end_hash
        content_start == end_hash
    IN  IF ~m.hasMatch THEN <<>>
        ELSE (IF ~caret_in_markers
              THEN <<setFormat(start_hash, end_hash - start_hash, "fmt_marker", 0, "heading")>>
              ELSE <<>>)
          \o (IF m.content > 0
              THEN <<setFormat(content_start, Max(0, Len(text) - content_start),
                               "fmt_heading", h_sizes[level], "heading")>>
              ELSE <<>>)

\* apply_lists taking every white space after the marker into the marker span
\* where the source takes one
apply_lists_allSeparators(text, block_pos, caret) ==
    LET ul == rx_ul(text)
        ol == rx_ol(text)
    IN  IF ul.hasMatch
        THEN LET start == ul.indent
                 end == start + 1 + SpaceRun(text, start + 1)
                 caret_in_markers == block_pos + start <= caret /\ caret < block_pos + end
             IN  IF ~caret_in_markers
                 THEN <<setFormat(start, end - start, "fmt_marker", 0, "lists")>>
                 ELSE <<>>
        ELSE IF ol.hasMatch
        THEN LET start == ol.indent
                 end == start + ol.digits + 1 + SpaceRun(text, start + ol.digits + 1)
                 caret_in_markers == block_pos + start <= caret /\ caret < block_pos + end
             IN  IF ~caret_in_markers
                 THEN <<setFormat(start, end - start, "fmt_marker", 0, "lists")>>
                 ELSE <<>>
        ELSE <<>>

apply_lists(text, block_pos, caret) ==
    LET ul == rx_ul(text)
        ol == rx_ol(text)
    IN  IF ul.hasMatch
        THEN LET start == ul.indent
                 end == start + 2
                 caret_in_markers == block_pos + start <= caret /\ caret < block_pos + end
             IN  IF ~caret_in_markers
                 THEN <<setFormat(start, end - start, "fmt_marker", 0, "lists")>>
                 ELSE <<>>
        ELSE IF ol.hasMatch
        THEN LET start == ol.indent
                 end == start + ol.digits + 2
                 caret_in_markers == block_pos + start <= caret /\ caret < block_pos + end
             IN  IF ~caret_in_markers
                 THEN <<setFormat(start, end - start, "fmt_marker", 0, "lists")>>
                 ELSE <<>>
        ELSE <<>>

apply_blockquote(text, block_pos, caret) ==
    LET m == rx_quote(text)
        start == m.indent
        end == start + 1 + (IF At(text, start + 1) = " " THEN 1 ELSE 0)
        caret_in_markers == block_pos + start <= caret /\ caret < block_pos + end
    IN  IF ~m.hasMatch THEN <<>>
        ELSE (IF ~caret_in_markers
              THEN <<setFormat(start, end - start, "fmt_marker", 0, "blockquote")>>
              ELSE <<>>)
          \o (IF m.rest > 0
              THEN <<setFormat(end, Max(0, Len(text) - end), "fmt_quote", 0, "blockquote")>>
              ELSE <<>>)

\* caret_in of _apply_emphasis, for the match m
caret_in(m, block_pos, caret) ==
    block_pos + m.a <= caret /\ caret <= block_pos + m.b

\* the body of one of the three while loops of _apply_emphasis, for the matches
\* ms still to come: width is the delimiter's length, fmt the inner format
RECURSIVE emphasis_loop(_, _, _, _, _)
emphasis_loop(ms, width, fmt, block_pos, caret) ==
    IF ms = <<>> THEN <<>>
    ELSE LET m == Head(ms)
         IN  (IF ~caret_in(m, block_pos, caret)
              THEN <<setFormat(m.a, width, "fmt_marker", 0, "emphasis"),
                     setFormat(m.b - width, width, "fmt_marker", 0, "emphasis")>>
              ELSE <<>>)
             \o <<setFormat(m.s1, m.l1, fmt, 0, "emphasis")>>
             \o emphasis_loop(Tail(ms), width, fmt, block_pos, caret)

apply_emphasis(text, block_pos, caret) ==
       emphasis_loop(globalMatch("bold", text, 0), 2, "fmt_bold", block_pos, caret)
    \o emphasis_loop(globalMatch("italic", text, 0), 1, "fmt_italic", block_pos, caret)
    \o emphasis_loop(globalMatch("code", text, 0), 1, "fmt_code", block_pos, caret)

\* the single-line constructs with the first rule that matches winning: the
\* rules after it, emphasis included, are not applied
single_line_constructs_firstWins(text, block_pos, caret) ==
    IF rx_heading(text).hasMatch THEN apply_heading(text, block_pos, caret)
    ELSE IF rx_ul(text).hasMatch \/ rx_ol(text).hasMatch
    THEN apply_lists(text, block_pos, caret)
    ELSE IF rx_quote(text).hasMatch THEN apply_blockquote(text, block_pos, caret)
    ELSE apply_emphasis(text, block_pos, caret)

\* the single-line constructs of highlightBlock, applied in its order
single_line_constructs(text, block_pos, caret) ==
       apply_heading(text, block_pos, caret)
    \o apply_lists(text, block_pos, caret)
    \o apply_blockquote(text, block_pos, caret)
    \o apply_emphasis(text, block_pos, caret)

\* highlightBlock without the return that ends the inside-a-fence branch
highlightBlock_fallThrough(text, block_pos, state, caret) ==
    LET in_fence == state = 1
        whole == setFormat(0, Len(text), "fmt_code", 0, "fence")
    IN  IF in_fence
        THEN IF fence_rx(text)
             THEN [anns |-> <<whole>> \o
                            (IF ~(block_pos <= caret /\ caret < block_pos + Len(text))
                             THEN <<whole>> ELSE <<>>)
                            \o single_line_constructs(text, block_pos, caret),
                   state |-> 0]
             ELSE [anns |-> <<whole>> \o single_line_constructs(text, block_pos, caret),
                   state |-> 1]
        ELSE IF fence_rx(text)
             THEN [anns |-> <<whole>>, state |-> 1]
             ELSE [anns |-> single_line_constructs(text, block_pos, caret),
                   state |-> 0]

\* highlightBlock losing the fence on a line inside it: the state is set to 0
\* where the source sets it to 1
highlightBlock_dropsFence(text, block_pos, state, caret) ==
    LET in_fence == state = 1
        whole == setFormat(0, Len(text), "fmt_code", 0, "fence")
    IN  IF in_fence
        THEN IF fence_rx(text)
             THEN [anns |-> <<whole>> \o
                            (IF ~(block_pos <= caret /\ caret < block_pos + Len(text))
                             THEN <<whole>> ELSE <<>>),
                   state |-> 0]
             ELSE [anns |-> <<whole>>, state |-> 0]
        ELSE IF fence_rx(text)
             THEN [anns |-> <<whole>>, state |-> 1]
             ELSE [anns |-> single_line_constructs(text, block_pos, caret),
                   state |-> 0]

\* highlightBlock reading the block's own state (currentBlockState) where the
\* source reads previousBlockState
highlightBlock_currentState(text, block_pos, state, caret) ==
    LET in_fence == l_out.state = 1
        whole == setFormat(0, Len(text), "fmt_code", 0, "fence")
    IN  IF in_fence
        THEN IF fence_rx(text)
             THEN [anns |-> <<whole>> \o
                            (IF ~(block_pos <= caret /\ caret < block_pos + Len(text))
                             THEN <<whole>> ELSE <<>>),
                   state |-> 0]
             ELSE [anns |-> <<whole>>, state |-> 1]
        ELSE IF fence_rx(text)
             THEN [anns |-> <<whole>>, state |-> 1]
             ELSE [anns |-> single_line_constructs(text, block_pos, caret),
                   state |-> 0]

\* highlightBlock handing the state it read on to the block where the source
\* sets the block state to 0
highlightBlock_passesState(text, block_pos, state, caret) ==
    LET in_fence == state = 1
        whole == setFormat(0, Len(text), "fmt_code", 0, "fence")
    IN  IF in_fence
        THEN IF fence_rx(text)
             THEN [anns |-> <<whole>> \o
                            (IF ~(block_pos <= caret /\ caret < block_pos + Len(text))
                             THEN <<whole>> ELSE <<>>),
                   state |-> 0]
             ELSE [anns |-> <<whole>>, state |-> 1]
        ELSE IF fence_rx(text)
             THEN [anns |-> <<whole>>, state |-> 1]
             ELSE [anns |-> single_line_constructs(text, block_pos, caret),
                   state |-> state]

\* highlightBlock never leaving a fence: a closing fence line sets the block
\* state to 1 where the source sets it to 0
highlightBlock_neverCloses(text, block_pos, state, caret) ==
    LET in_fence == state = 1
        whole == setFormat(0, Len(text), "fmt_code", 0, "fence")
    IN  IF in_fence
        THEN IF fence_rx(text)
             THEN [anns |-> <<whole>> \o
                            (IF ~(block_pos <= caret /\ caret < block_pos + Len(text))
                             THEN <<whole>> ELSE <<>>),
                   state |-> 1]
             ELSE [anns |-> <<whole>>, state |-> 1]
        ELSE IF fence_rx(text)
             THEN [anns |-> <<whole>>, state |-> 1]
             ELSE [anns |-> single_line_constructs(text, block_pos, caret),
                   state |-> 0]

\* highlightBlock taking every positive previous block state for "inside a
\* fence" where the source takes the value 1 only
highlightBlock_positiveIsFence(text, block_pos, state, caret) ==
    LET in_fence == state >= 1
        whole == setFormat(0, Len(text), "fmt_code", 0, "fence")
    IN  IF in_fence
        THEN IF fence_rx(text)
             THEN [anns |-> <<whole>> \o
                            (IF ~(block_pos <= caret /\ caret < block_pos + Len(text))
                             THEN <<whole>> ELSE <<>>),
                   state |-> 0]
             ELSE [anns |-> <<whole>>, state |-> 1]
        ELSE IF fence_rx(text)
             THEN [anns |-> <<whole>>, state |-> 1]
             ELSE [anns |-> single_line_constructs(text, block_pos, caret),
                   state |-> 0]

\* highlightBlock(text) with block_pos = currentBlock().position(),
\* state = previousBlockState() and caret = self.caret_pos: the setFormat calls
\* made and the value given to setCurrentBlockState
highlightBlock(text, block_pos, state, caret) ==
    LET in_fence == state = 1
        whole == setFormat(0, Len(text), "fmt_code", 0, "fence")
    IN  IF in_fence
        THEN IF fence_rx(text)
             THEN [anns |-> <<whole>> \o
                            (IF ~(block_pos <= caret /\ caret < block_pos + Len(text))
                             THEN <<whole>> ELSE <<>>),
                   state |-> 0]
             ELSE [anns |-> <<whole>>, state |-> 1]
        ELSE IF fence_rx(text)
             THEN [anns |-> <<whole>>, state |-> 1]
             ELSE [anns |-> single_line_constructs(text, block_pos, caret),
                   state |-> 0]

----------------------------------------------------------------------------
(* The inputs of the single-block specification *)

\* the characters the exhaustively enumerated texts are made of
Alphabet == {" ", "#", "*", Backtick, "-", ">", "a"}

\* every text of at most MaxLen characters over Alphabet
ShortTexts == UNION {[1..n -> Alphabet] : n \in 0..MaxLen}

\* lines of Markdown that exercise each rule
SampleLines ==
    { <<Backtick, Backtick, Backtick>>,
      <<Backtick, Backtick, Backtick, "p", "y">>,
      <<"x", " ", "=", " ", "1">>,
      <<"#", " ", "T", "i", "t", "l", "e">>,
      <<"#", "#", " ", "a">>,
      <<"#", "a">>,
      <<"#", "#", "#", "#", "#", "#", "#">>,
      <<"-", " ", "i", "t", "e", "m", " ", "o", "n", "e">>,
      <<"*", " ", "a">>,
      <<"1", ".", " ", "a">>,
      <<"1", "2", ")", " ", "a">>,
      <<"1", ".", "a">>,
      <<"-", " ", "*", "a", "*">>,
      <<">", " ", "a">>,
      <<">", "a">>,
      <<">">>,
      <<">", "\t", "a">>,
      <<">", "\t">>,
      <<"*", "*", "a", "*", "*">>,
      <<"*", "a", "*">>,
      <<Backtick, "a", Backtick>>,
      <<"*", "*", "a", "*", "b", "*", "*">>,
      <<Backtick, "*", "a", "*", Backtick>>,
      <<"*", " ", "*", "a", "*">>,
      <<"#", " ", "-", " ", "n", "o", "t", " ", "a", " ", "l", "i", "s", "t">>,
      <<"#", " ", "*", "*", "a", "*", "*">>,
      <<"\t", Backtick, Backtick, Backtick>> }

\* the line of the non-overlap example
ExampleLine ==
    <<"*", "*", "b", "o", "l", "d", "*", "*", " ", "a", "n", "d", " ", "*", "i", "t", "a", "l", "i", "c", "*", " ", "a", "n", "d", " ", Backtick, "c", "o", "d", "e", Backtick>>

\* n spaces
RECURSIVE Spaces(_)
Spaces(n) == IF n = 0 THEN <<>> ELSE <<" ">> \o Spaces(n - 1)

\* the sample lines, each behind 0..MaxIndent leading spaces
IndentedSamples ==
    {Spaces(k) \o t : k \in 0..MaxIndent, t \in SampleLines \cup {ExampleLine}}

Texts == ShortTexts \cup IndentedSamples

\* the start offset of the block when it is not the first of its document
BlockPos == 10

\* the caret offsets tried on a block at block_pos: the constructor's -1, and
\* every offset from just before the block to just after its end
LineCarets(text, block_pos) ==
    {-1} \cup {c \in (block_pos - 1)..(block_pos + Len(text) + 1) : c >= 0}

\* a block that was never highlighted: no format, block state -1
NoOut == [anns |-> <<>>, state |-> -1]

----------------------------------------------------------------------------
(* Specification SpecLine: one block behind the highlighter's interface,    *)
(* setCaretPosition and the reprocessing of the block (highlightBlock).     *)

\* the view actions and panes after construction: nothing checked, the editor
\* shown, the preview hidden, the normal highlighter on the document
\* no 'git req verify' is run
VerifyIdle ==
    /\ v_repo = TRUE
    /\ v_log = [returncode |-> 0, stdout |-> <<>>]
    /\ v_refs = <<>>
    /\ v_ancestors = {}
    /\ v_pc = "done"
    /\ v_tag = <<>>
    /\ v_exit = -1
    /\ v_stdout = <<>>
    /\ v_stderr = <<>>

\* no call of detect_srs_ids
DetectIdle ==
    /\ d_text = <<>>
    /\ d_pattern = "SRS_ID_REGEX"
    /\ d_called = FALSE
    /\ d_ids = <<>>

\* a file that does not exist
NoFile == [exists |-> FALSE, text |-> <<>>]

\* the empty document of a window just constructed, nothing saved
FileIdle ==
    /\ f_text = <<>>
    /\ f_modified = FALSE
    /\ f_workspace = FALSE
    /\ f_current_file = FALSE
    /\ f_disk = NoFile
    /\ f_autosave = NoFile
    /\ f_status_srs = <<>>
    /\ f_default_msg = <<>>
    /\ f_saved = FALSE
    /\ f_last = [op |-> "init", asked |-> FALSE, wrote |-> FALSE, clean |-> FALSE]

WindowInit ==
    /\ act_inline_live = FALSE
    /\ act_live_preview = FALSE
    /\ act_split_view = FALSE
    /\ act_toggle_md = TRUE
    /\ editor_visible = TRUE
    /\ preview_visible = FALSE
    /\ highlighter_attached = TRUE
    /\ preview_src = <<>>

HostIdle ==
    /\ WindowInit
    /\ doc = <<>>
    /\ cursor = 0
    /\ live_highlighter = FALSE
    /\ userState = <<>>
    /\ formats = <<>>
    /\ inline_prev_blocknum = -1
    /\ last_event = [name |-> "init", blocks |-> <<>>]

InitLine ==
    /\ HostIdle
    /\ VerifyIdle
    /\ DetectIdle
    /\ FileIdle
    /\ l_text \in Texts
    /\ l_block_pos \in {0, BlockPos}
    /\ l_prev_state \in {-1, 0, 1}
    /\ caret_pos = -1
    /\ l_out = NoOut
    /\ l_calls = 0

\* setCaretPosition that also reprocesses the block at once
setCaretPosition_rehighlights(pos) ==
    /\ caret_pos' = pos
    /\ l_calls' = 0
    /\ l_out' = highlightBlock(l_text, l_block_pos, l_prev_state, pos)
    /\ UNCHANGED <<userState, formats>>

\* LivePreviewHighlighter.setCaretPosition
setCaretPosition(pos) ==
    /\ caret_pos' = pos
    /\ l_calls' = 0
    /\ UNCHANGED <<l_out, userState, formats>>

\* the block is reprocessed: its formats and its block state are replaced by
\* what highlightBlock produces
reprocessLine ==
    /\ l_calls < MaxCalls
    /\ l_out' = highlightBlock(l_text, l_block_pos, l_prev_state, caret_pos)
    /\ l_calls' = l_calls + 1
    /\ UNCHANGED <<caret_pos, userState, formats>>

LineSetCaret ==
    /\ \E pos \in LineCarets(l_text, l_block_pos) :
          pos # caret_pos /\ setCaretPosition(pos)
    /\ UNCHANGED <<doc, cursor, live_highlighter, inline_prev_blocknum, last_event>>
    /\ UNCHANGED windowVars
    /\ UNCHANGED verifyVars
    /\ UNCHANGED detectVars
    /\ UNCHANGED fileVars
    /\ UNCHANGED lineInputs

LineReprocess ==
    /\ reprocessLine
    /\ UNCHANGED <<doc, cursor, live_highlighter, inline_prev_blocknum, last_event>>
    /\ UNCHANGED windowVars
    /\ UNCHANGED verifyVars
    /\ UNCHANGED detectVars
    /\ UNCHANGED fileVars
    /\ UNCHANGED lineInputs

NextLine == LineSetCaret \/ LineReprocess

SpecLine == InitLine /\ [][NextLine]_vars

\* Specification SpecLineStates: the same block and steps, with the value
\* previousBlockState() returns drawn from more than the three values the
\* highlighter and the toolkit produce
PrevStates == {-1, 0, 1, 2, 7}

InitLineStates ==
    /\ HostIdle
    /\ VerifyIdle
    /\ DetectIdle
    /\ FileIdle
    /\ l_text \in IndentedSamples
    /\ l_block_pos \in {0, BlockPos}
    /\ l_prev_state \in PrevStates
    /\ caret_pos = -1
    /\ l_out = NoOut
    /\ l_calls = 0

SpecLineStates == InitLineStates /\ [][NextLine]_vars

----------------------------------------------------------------------------
(* The document and the reformatting of its blocks.  LivePreviewHighlighter *)
(* is a QSyntaxHighlighter: the toolkit calls highlightBlock on a block with *)
(* previousBlockState() the stored state of the block before it (-1 for the  *)
(* first block), stores the formats set and the state given to               *)
(* setCurrentBlockState, and goes on to the next block while it is within    *)
(* the range asked for or the state of the block just done has changed.      *)

\* the lines a document is made of
LinePool ==
    { <<Backtick, Backtick, Backtick>>,
      <<"a">>,
      <<"#", " ", "a">> }

\* the documents: 1..MaxLines lines of LinePool
Docs == UNION {[1..n -> LinePool] : n \in 1..MaxLines}

\* block.position() of block number n (0-based): every block before it takes
\* its text and one separator
RECURSIVE position(_, _)
position(d, n) == IF n = 0 THEN 0 ELSE position(d, n - 1) + Len(d[n]) + 1

\* the offsets a cursor can have in document d
Positions(d) == 0..(position(d, Len(d)) - 1)

\* cursor.blockNumber() for a cursor at offset pos
blockNumber(d, pos) ==
    CHOOSE n \in 0..(Len(d) - 1) :
        position(d, n) <= pos /\ pos <= position(d, n) + Len(d[n + 1])

\* what a highlighter run works on: the blocks' states and formats, and the
\* block numbers passed to highlightBlock so far
HL(us, fm, bl) == [userState |-> us, formats |-> fm, blocks |-> bl]

\* the blocks from number n on are reformatted with caret_pos = caret: up to
\* block number last, and further while the state of the block just done
\* changed; previousBlockState() is -1 for the first block
RECURSIVE reformatBlocks(_, _, _, _, _, _)

\* block number n is reformatted: r is what highlightBlock returned for it
reformatBlock(d, st, n, last, caret, r) ==
    reformatBlocks(d,
                   HL([st.userState EXCEPT ![n + 1] = r.state],
                      [st.formats EXCEPT ![n + 1] = r.anns],
                      Append(st.blocks, n)),
                   n + 1, last, r.state # st.userState[n + 1], caret)

reformatBlocks(d, st, n, last, force, caret) ==
    IF n >= Len(d) \/ ~(n <= last \/ force) THEN st
    ELSE reformatBlock(d, st, n, last, caret,
                       highlightBlock(d[n + 1], position(d, n),
                                      IF n = 0 THEN -1 ELSE st.userState[n], caret))

\* live_highlighter.rehighlightBlock(block number n)
rehighlightBlock(d, st, n, caret) == reformatBlocks(d, st, n, n, FALSE, caret)

\* the rehighlight of the whole document that attaching a highlighter queues
rehighlight(d, st, caret) == reformatBlocks(d, st, 0, Len(d) - 1, FALSE, caret)

----------------------------------------------------------------------------
(* MainWindow: the handlers that drive the live highlighter *)

\* _on_cursor_pos_changed rehighlighting the whole document
on_cursor_pos_changed_rehighlightAll(d, pos, st, prev_blocknum) ==
    rehighlight(d, st, pos)

\* _on_cursor_pos_changed with a live highlighter, for a cursor at pos: the
\* caret is recorded, then the previous and the current block are rehighlighted
on_cursor_pos_changed(d, pos, st, prev_blocknum) ==
    LET blocknum == blockNumber(d, pos)
        st1 == IF prev_blocknum >= 0 /\ prev_blocknum # blocknum
                  /\ prev_blocknum < Len(d)
               THEN rehighlightBlock(d, st, prev_blocknum, pos)
               ELSE st
    IN  rehighlightBlock(d, st1, blocknum, pos)

\* the editor's cursor moves to pos: cursorPositionChanged runs
\* _on_cursor_pos_changed
cursorPositionChanged(pos) ==
    /\ pos # cursor
    /\ cursor' = pos
    /\ IF live_highlighter
       THEN LET st == on_cursor_pos_changed(doc, pos, HL(userState, formats, <<>>),
                                            inline_prev_blocknum)
            IN  /\ caret_pos' = pos
                /\ userState' = st.userState
                /\ formats' = st.formats
                /\ inline_prev_blocknum' = blockNumber(doc, pos)
                /\ last_event' = [name |-> "cursor", blocks |-> st.blocks]
       ELSE /\ UNCHANGED <<caret_pos, userState, formats, inline_prev_blocknum>>
            /\ last_event' = [name |-> "cursor", blocks |-> <<>>]
    /\ UNCHANGED <<doc, live_highlighter>>
    /\ UNCHANGED windowVars
    /\ UNCHANGED <<l_text, l_block_pos, l_prev_state, l_out, l_calls>>
    /\ UNCHANGED verifyVars
    /\ UNCHANGED detectVars
    /\ UNCHANGED fileVars

\* 'Live Inline Markdown' is toggled.  On: 'Realtime Markdown Preview' is
\* unchecked when checked (its handler shows the editor), the editor is
\* shown, the preview hidden unless the split view is checked, the normal
\* highlighter is detached, a LivePreviewHighlighter (caret_pos -1) is
\* attached, _on_cursor_pos_changed runs, and the rehighlight queued by
\* attaching follows.  Off: the live highlighter is detached, which clears its
\* formats, and dropped, and the normal highlighter is attached.
on_toggle_inline_live(enabled) ==
    /\ enabled # act_inline_live
    /\ act_inline_live' = enabled
    /\ live_highlighter' = enabled
    /\ highlighter_attached' = ~enabled
    /\ IF enabled
       THEN /\ act_live_preview' = FALSE
            /\ editor_visible' = TRUE
            /\ preview_visible' = IF act_split_view THEN preview_visible ELSE FALSE
       ELSE UNCHANGED <<act_live_preview, editor_visible, preview_visible>>
    /\ UNCHANGED <<act_split_view, act_toggle_md, preview_src>>
    /\ IF enabled
       THEN LET st1 == on_cursor_pos_changed(doc, cursor, HL(userState, formats, <<>>),
                                             inline_prev_blocknum)
                st2 == rehighlight(doc, st1, cursor)
            IN  /\ caret_pos' = cursor
                /\ userState' = st2.userState
                /\ formats' = st2.formats
                /\ inline_prev_blocknum' = blockNumber(doc, cursor)
                /\ last_event' = [name |-> "toggle_on", blocks |-> st2.blocks]
       ELSE /\ caret_pos' = -1
            /\ formats' = [i \in DOMAIN formats |-> <<>>]
            /\ UNCHANGED <<userState, inline_prev_blocknum>>
            /\ last_event' = [name |-> "toggle_off", blocks |-> <<>>]
    /\ UNCHANGED <<doc, cursor>>
    /\ UNCHANGED <<l_text, l_block_pos, l_prev_state, l_out, l_calls>>
    /\ UNCHANGED verifyVars
    /\ UNCHANGED detectVars
    /\ UNCHANGED fileVars

LineIdle ==
    /\ l_text = <<>>
    /\ l_block_pos = 0
    /\ l_prev_state = -1
    /\ l_out = NoOut
    /\ l_calls = 0

\* the window after construction, with a document loaded in the editor
Init ==
    /\ LineIdle
    /\ VerifyIdle
    /\ DetectIdle
    /\ FileIdle
    /\ WindowInit
    /\ doc \in Docs
    /\ cursor = 0
    /\ live_highlighter = FALSE
    /\ caret_pos = -1
    /\ userState = [i \in DOMAIN doc |-> -1]
    /\ formats = [i \in DOMAIN doc |-> <<>>]
    /\ inline_prev_blocknum = -1
    /\ last_event = [name |-> "init", blocks |-> <<>>]

Next ==
    \/ \E pos \in Positions(doc) : cursorPositionChanged(pos)
    \/ \E enabled \in BOOLEAN : on_toggle_inline_live(enabled)

Spec == Init /\ [][Next]_vars

----------------------------------------------------------------------------
(* Specification SpecEdit: the window with the text of the editor edited.   *)

\* largest number of lines of a document that is edited
MaxEditLines == 2

\* the documents that are edited: 1..MaxEditLines lines of LinePool
EditDocs == UNION {[1..n -> LinePool] : n \in 1..MaxEditLines}

\* the editor's document after text was pasted or typed over a selection.  The
\* toolkit passes contentsChange(from, charsRemoved, charsAdded) to the attached
\* highlighter, which reformats the blocks from the one holding `from` to the
\* one holding from + charsAdded (+ 1 when characters were removed), and on
\* while a block state changes, under the caret_pos recorded last
contentsChange(d, st, from, charsRemoved, charsAdded, caret) ==
    reformatBlocks(d, st, blockNumber(d, from),
                   IF from + charsAdded + (IF charsRemoved > 0 THEN 1 ELSE 0)
                         < position(d, Len(d))
                   THEN blockNumber(d, from + charsAdded
                                          + (IF charsRemoved > 0 THEN 1 ELSE 0))
                   ELSE Len(d) - 1,
                   FALSE, caret)

\* the sequence s with x put in front of its element number i (0-based)
InsertAt(s, i, x) == SubSeq(s, 1, i) \o <<x>> \o SubSeq(s, i + 1, Len(s))
\* the sequence s without its element number i (0-based)
RemoveAt(s, i) == SubSeq(s, 1, i) \o SubSeq(s, i + 2, Len(s))

\* an edit of the editor's text at its cursor: the document becomes d with the
\* block states us and formats fm the toolkit keeps for its blocks, the
\* attached highlighter reformats what contentsChange reports, on_editor_changed
\* renders the preview when a preview is checked, and the cursor arrives at
\* pos, which runs _on_cursor_pos_changed
textEdited(name, d, us, fm, from, charsRemoved, charsAdded, pos) ==
    /\ doc' = d
    /\ cursor' = pos
    /\ IF live_highlighter
       THEN \E changed \in {contentsChange(d, HL(us, fm, <<>>), from, charsRemoved,
                                           charsAdded, caret_pos)} :
                \E st \in {on_cursor_pos_changed(d, pos, changed,
                                                 inline_prev_blocknum)} :
                    /\ caret_pos' = pos
                    /\ userState' = st.userState
                    /\ formats' = st.formats
                    /\ inline_prev_blocknum' = blockNumber(d, pos)
                    /\ last_event' = [name |-> name, blocks |-> st.blocks]
       ELSE /\ userState' = us
            /\ formats' = fm
            /\ UNCHANGED <<caret_pos, inline_prev_blocknum>>
            /\ last_event' = [name |-> name, blocks |-> <<>>]
    /\ preview_src' = IF act_live_preview \/ act_split_view THEN d ELSE preview_src
    /\ UNCHANGED <<live_highlighter, act_inline_live, act_live_preview, act_split_view,
                   act_toggle_md, editor_visible, preview_visible,
                   highlighter_attached>>
    /\ UNCHANGED <<l_text, l_block_pos, l_prev_state, l_out, l_calls>>
    /\ UNCHANGED verifyVars
    /\ UNCHANGED detectVars
    /\ UNCHANGED fileVars

\* the text of block n is selected, from either end, and the text t is typed or
\* pasted over it
replaceLine(n, t) ==
    /\ t # doc[n + 1]
    /\ cursor \in {position(doc, n), position(doc, n) + Len(doc[n + 1])}
    /\ textEdited("replace", [doc EXCEPT ![n + 1] = t], userState, formats,
                  position(doc, n), Len(doc[n + 1]), Len(t),
                  position(doc, n) + Len(t))

\* with the cursor at the start of block n, the line t and a line break are
\* pasted: a new block takes t, the block with the old text moves down
insertLine(n, t) ==
    /\ Len(doc) < MaxEditLines
    /\ cursor = position(doc, n)
    /\ textEdited("insert", InsertAt(doc, n, t), InsertAt(userState, n, -1),
                  InsertAt(formats, n, <<>>),
                  position(doc, n), 0, Len(t) + 1,
                  position(doc, n) + Len(t) + 1)

\* block n is selected together with a line break, from either end of the
\* selection, and deleted: with its own line break when a block follows it,
\* with the line break before it when it is the last block.  The block that
\* is left keeps the state of the later of the two blocks joined.
deleteLine(n) ==
    /\ Len(doc) > 1
    /\ IF n < Len(doc) - 1
       THEN /\ cursor \in {position(doc, n), position(doc, n + 1)}
            /\ textEdited("delete", RemoveAt(doc, n), RemoveAt(userState, n),
                          RemoveAt(formats, n),
                          position(doc, n), Len(doc[n + 1]) + 1, 0,
                          position(doc, n))
       ELSE /\ cursor \in {position(doc, n) - 1, position(doc, n) + Len(doc[n + 1])}
            /\ textEdited("delete", RemoveAt(doc, n), RemoveAt(userState, n - 1),
                          RemoveAt(formats, n - 1),
                          position(doc, n) - 1, Len(doc[n + 1]) + 1, 0,
                          position(doc, n) - 1)

\* the window after construction, with a document to edit loaded
InitEdit ==
    /\ LineIdle
    /\ VerifyIdle
    /\ DetectIdle
    /\ FileIdle
    /\ WindowInit
    /\ doc \in EditDocs
    /\ cursor = 0
    /\ live_highlighter = FALSE
    /\ caret_pos = -1
    /\ userState = [i \in DOMAIN doc |-> -1]
    /\ formats = [i \in DOMAIN doc |-> <<>>]
    /\ inline_prev_blocknum = -1
    /\ last_event = [name |-> "init", blocks |-> <<>>]

NextEdit ==
    \/ \E pos \in Positions(doc) : cursorPositionChanged(pos)
    \/ \E enabled \in BOOLEAN : on_toggle_inline_live(enabled)
    \/ \E n \in 0..(Len(doc) - 1), t \in LinePool : replaceLine(n, t)
    \/ \E n \in 0..(Len(doc) - 1), t \in LinePool : insertLine(n, t)
    \/ \E n \in 0..(Len(doc) - 1) : deleteLine(n)

SpecEdit == InitEdit /\ [][NextEdit]_vars

----------------------------------------------------------------------------
(* Specification SpecView: the window with its view actions toggled.  A     *)
(* checked action that a handler unchecks emits toggled(False), which runs   *)
(* its handler inside the handler that unchecked it.                         *)

\* on_toggle_preview_mode hiding the preview when unchecked whether or not the
\* split view is checked
on_toggle_preview_mode_hidesPreview(enabled) ==
    /\ enabled # act_live_preview
    /\ act_live_preview' = enabled
    /\ IF enabled
       THEN /\ preview_src' = doc
            /\ editor_visible' = FALSE
            /\ preview_visible' = TRUE
       ELSE /\ editor_visible' = TRUE
            /\ preview_visible' = FALSE
            /\ UNCHANGED preview_src
    /\ last_event' = [name |-> "toggle_preview", blocks |-> <<>>]
    /\ UNCHANGED <<act_inline_live, act_split_view, act_toggle_md,
                   highlighter_attached>>
    /\ UNCHANGED <<doc, cursor, live_highlighter, caret_pos, userState, formats,
                   inline_prev_blocknum>>
    /\ UNCHANGED <<l_text, l_block_pos, l_prev_state, l_out, l_calls>>
    /\ UNCHANGED verifyVars
    /\ UNCHANGED detectVars
    /\ UNCHANGED fileVars

\* 'Realtime Markdown Preview' is toggled.  On: the preview is rendered, the
\* editor hidden and the preview shown.  Off: the editor is shown and the
\* preview hidden unless the split view is checked.
on_toggle_preview_mode(enabled) ==
    /\ enabled # act_live_preview
    /\ act_live_preview' = enabled
    /\ IF enabled
       THEN /\ preview_src' = doc
            /\ editor_visible' = FALSE
            /\ preview_visible' = TRUE
       ELSE /\ editor_visible' = TRUE
            /\ preview_visible' = IF act_split_view THEN preview_visible ELSE FALSE
            /\ UNCHANGED preview_src
    /\ last_event' = [name |-> "toggle_preview", blocks |-> <<>>]
    /\ UNCHANGED <<act_inline_live, act_split_view, act_toggle_md,
                   highlighter_attached>>
    /\ UNCHANGED <<doc, cursor, live_highlighter, caret_pos, userState, formats,
                   inline_prev_blocknum>>
    /\ UNCHANGED <<l_text, l_block_pos, l_prev_state, l_out, l_calls>>
    /\ UNCHANGED verifyVars
    /\ UNCHANGED detectVars
    /\ UNCHANGED fileVars

\* 'Split View (Preview)' is toggled.  'Realtime Markdown Preview' is unchecked
\* when checked (its handler shows the editor, and hides the preview when the
\* split view is being unchecked), the preview is shown or hidden as the
\* split view is checked or not, and rendered when shown.
on_toggle_split_view(enabled) ==
    /\ enabled # act_split_view
    /\ act_split_view' = enabled
    /\ act_live_preview' = FALSE
    /\ editor_visible' = IF act_live_preview THEN TRUE ELSE editor_visible
    /\ preview_visible' = enabled
    /\ preview_src' = IF enabled THEN doc ELSE preview_src
    /\ last_event' = [name |-> "toggle_split", blocks |-> <<>>]
    /\ UNCHANGED <<act_inline_live, act_toggle_md, highlighter_attached>>
    /\ UNCHANGED <<doc, cursor, live_highlighter, caret_pos, userState, formats,
                   inline_prev_blocknum>>
    /\ UNCHANGED <<l_text, l_block_pos, l_prev_state, l_out, l_calls>>
    /\ UNCHANGED verifyVars
    /\ UNCHANGED detectVars
    /\ UNCHANGED fileVars

\* 'Syntax highlighting' is toggled.  On: the normal highlighter gets the
\* editor's document and rehighlights it.  Off: it is detached.  The formats
\* and block states kept here are those of the live highlighter.
on_toggle_highlight(enabled) ==
    /\ enabled # act_toggle_md
    /\ act_toggle_md' = enabled
    /\ highlighter_attached' = enabled
    /\ last_event' = [name |-> "toggle_md", blocks |-> <<>>]
    /\ UNCHANGED <<act_inline_live, act_live_preview, act_split_view,
                   editor_visible, preview_visible, preview_src>>
    /\ UNCHANGED <<doc, cursor, live_highlighter, caret_pos, userState, formats,
                   inline_prev_blocknum>>
    /\ UNCHANGED <<l_text, l_block_pos, l_prev_state, l_out, l_calls>>
    /\ UNCHANGED verifyVars
    /\ UNCHANGED detectVars
    /\ UNCHANGED fileVars

NextView ==
    \/ \E pos \in Positions(doc) : cursorPositionChanged(pos)
    \/ \E enabled \in BOOLEAN : on_toggle_inline_live(enabled)
    \/ \E enabled \in BOOLEAN : on_toggle_preview_mode(enabled)
    \/ \E enabled \in BOOLEAN : on_toggle_split_view(enabled)
    \/ \E enabled \in BOOLEAN : on_toggle_highlight(enabled)

SpecView == InitEdit /\ [][NextView]_vars


----------------------------------------------------------------------------
(* Specification SpecVerify: one run of 'git req verify' (git-req.py, main   *)
(* and cmd_verify) in a repository whose state the run reads through git.    *)

\* the class of upper-case letters and digits of the SRS-ID pattern
IsUpperAlnum(c) ==
    c \in {"A", "B", "C", "D", "E", "F", "G", "H", "I", "J", "K", "L", "M",
           "N", "O", "P", "Q", "R", "S", "T", "U", "V", "W", "X", "Y", "Z",
           "0", "1", "2", "3", "4", "5", "6", "7", "8", "9"}

\* number of characters from offset `from` on that are upper-case letters or digits
RECURSIVE UpperRun(_, _)
UpperRun(text, from) ==
    IF IsUpperAlnum(At(text, from)) THEN 1 + UpperRun(text, from + 1) ELSE 0

\* the characters of lit stand in text from offset p on
LitAt(text, p, lit) == \A i \in 1..Len(lit) : At(text, p + i - 1) = lit[i]

\* the type codes of STRICT_SRS
SRS_TYPES ==
    {<<"H", "L">>, <<"L", "L">>, <<"C", "M", "P">>, <<"A", "P", "I">>,
     <<"D", "B">>, <<"T", "S", "T">>}

\* STRICT_SRS matches at offset p: Y10K, two dash-separated runs of upper-case
\* letters and digits, a type code and three digits
STRICT_SRS_at(text, p) ==
    LET p1 == p + 5
        p2 == p1 + UpperRun(text, p1) + 1
        p3 == p2 + UpperRun(text, p2) + 1
    IN  /\ LitAt(text, p, <<"Y", "1", "0", "K", "-">>)
        /\ UpperRun(text, p1) >= 1 /\ At(text, p2 - 1) = "-"
        /\ UpperRun(text, p2) >= 1 /\ At(text, p3 - 1) = "-"
        /\ \E ty \in SRS_TYPES :
              /\ LitAt(text, p3, ty)
              /\ At(text, p3 + Len(ty)) = "-"
              /\ \A i \in 1..3 : IsDigit(At(text, p3 + Len(ty) + i))

\* re.search(STRICT_SRS, text)
STRICT_SRS_search(text) == \E p \in 0..(Len(text) - 1) : STRICT_SRS_at(text, p)

\* str.strip(): the text without its leading and trailing white space
RECURSIVE strip(_)
strip(text) ==
    IF text = <<>> THEN text
    ELSE IF Head(text) \in {" ", "\t", "\n"} THEN strip(Tail(text))
    ELSE IF text[Len(text)] \in {" ", "\t", "\n"} THEN strip(SubSeq(text, 1, Len(text) - 1))
    ELSE text

\* line.startswith(prefix)
startswith(line, prefix) == Len(line) >= Len(prefix) /\ LitAt(line, 0, prefix)

\* the subjects git log prints for HEAD, each with its line end
SubjStrict == <<"Y", "1", "0", "K", "-", "A", "-", "B", "-", "H", "L", "-", "0", "0", "1", " ", "x", "\n">>
SubjStrictInside == <<"f", "i", "x", " ", "Y", "1", "0", "K", "-", "A", "1", "-", "B", "2", "-", "T", "S", "T", "-", "1", "2", "3", "\n">>
SubjFourDigits == <<"Y", "1", "0", "K", "-", "A", "-", "B", "-", "C", "M", "P", "-", "0", "0", "1", "2", "\n">>
SubjLower == <<"y", "1", "0", "k", "-", "a", "-", "b", "-", "h", "l", "-", "0", "0", "1", "\n">>
SubjBadType == <<"Y", "1", "0", "K", "-", "A", "-", "B", "-", "X", "X", "-", "0", "0", "1", "\n">>
SubjTwoDigits == <<"Y", "1", "0", "K", "-", "A", "-", "B", "-", "D", "B", "-", "0", "1", "\n">>
SubjOneSegment == <<"Y", "1", "0", "K", "-", "A", "-", "H", "L", "-", "0", "0", "1", "\n">>
SubjPlain == <<"f", "i", "x", " ", "t", "y", "p", "o", "\n">>
SubjEmpty == <<"\n">>
Subjects ==
    {SubjStrict, SubjStrictInside, SubjFourDigits, SubjLower, SubjBadType,
     SubjTwoDigits, SubjOneSegment, SubjPlain, SubjEmpty}

\* the short names of the tags under refs/tags/baseline: baseline/v1 .. v3,
\* and a tag named baseline alone
BaselinePrefix == <<"b", "a", "s", "e", "l", "i", "n", "e", "/">>
TagPlain == <<"b", "a", "s", "e", "l", "i", "n", "e">>
BaselineTags == {BaselinePrefix \o <<"v", d>> : d \in {"1", "2", "3"}}

\* largest number of baseline tags in the repository
MaxTags == 2

\* the outputs of git for-each-ref, sorted by tagger date, latest first: the
\* tag baseline alone (no baseline/* tag can exist beside it), or up to
\* MaxTags baseline/* tags in any order of their dates
RefLists ==
    {<<TagPlain>>}
    \cup {r \in UNION {[1..n -> BaselineTags] : n \in 0..MaxTags} :
             \A i, j \in DOMAIN r : i # j => r[i] # r[j]}

\* the set of the elements of a sequence
Range(r) == {r[i] : i \in DOMAIN r}

\* the loop of cmd_verify taking the last line that starts with baseline/
\* where the source stops at the first
latest_baseline_oldest(lines) ==
    LET I == {i \in DOMAIN lines : startswith(lines[i], BaselinePrefix)}
    IN  IF I = {} THEN <<>> ELSE lines[CHOOSE i \in I : \A j \in I : j <= i]

\* the loop of cmd_verify over the lines of for-each-ref: the first line that
\* starts with baseline/, None (here <<>>) without one
latest_baseline(lines) ==
    LET I == {i \in DOMAIN lines : startswith(lines[i], BaselinePrefix)}
    IN  IF I = {} THEN <<>> ELSE lines[CHOOSE i \in I : \A j \in I : i <= j]

\* the run ends: sys.exit(status)
verify_exit(status, out, err) ==
    /\ v_pc' = "done"
    /\ v_exit' = status
    /\ v_stdout' = v_stdout \o out
    /\ v_stderr' = v_stderr \o err

\* main: ensure_repo, then the dispatch to cmd_verify
ensure_repo ==
    /\ v_pc = "repo"
    /\ IF v_repo
       THEN /\ v_pc' = "head"
            /\ UNCHANGED <<v_exit, v_stdout, v_stderr>>
       ELSE verify_exit(1, <<>>, <<"ERROR: Not inside a git repository.">>)
    /\ UNCHANGED v_tag

\* cmd_verify, git log: a failing git log raises RuntimeError, which main
\* prints before it returns 1; a subject without a strict SRS-ID ends the run
cmd_verify_head ==
    /\ v_pc = "head"
    /\ IF v_log.returncode # 0
       THEN verify_exit(1, <<>>, <<"RuntimeError">>)
       ELSE IF ~STRICT_SRS_search(strip(v_log.stdout))
       THEN verify_exit(1, <<>>,
                <<"ERROR: HEAD commit message must contain a strict SRS-ID.">>)
       ELSE /\ v_pc' = "baseline"
            /\ UNCHANGED <<v_exit, v_stdout, v_stderr>>
    /\ UNCHANGED v_tag

\* cmd_verify, git for-each-ref: the latest baseline tag
cmd_verify_baseline ==
    /\ v_pc = "baseline"
    /\ v_tag' = latest_baseline(v_refs)
    /\ IF latest_baseline(v_refs) = <<>>
       THEN verify_exit(1, <<>>, <<"ERROR: No baseline/* tag found.">>)
       ELSE /\ v_pc' = "ancestor"
            /\ UNCHANGED <<v_exit, v_stdout, v_stderr>>

\* cmd_verify, git merge-base --is-ancestor tag HEAD; main returns 0 when
\* cmd_verify returns
cmd_verify_ancestor ==
    /\ v_pc = "ancestor"
    /\ IF v_tag \notin v_ancestors
       THEN verify_exit(1, <<>>,
                << <<"ERROR: Latest baseline", v_tag, "is not an ancestor of HEAD.">> >>)
       ELSE verify_exit(0, <<"verify: OK">>, <<>>)
    /\ UNCHANGED v_tag

\* a repository, or none, and 'git req verify' about to run in it.  Outside a
\* repository and in one without a commit git log fails and no tag exists.
InitVerify ==
    /\ HostIdle
    /\ LineIdle
    /\ DetectIdle
    /\ FileIdle
    /\ caret_pos = -1
    /\ v_repo \in BOOLEAN
    /\ v_log \in {[returncode |-> 128, stdout |-> <<>>]}
                 \cup (IF v_repo
                       THEN {[returncode |-> 0, stdout |-> t] : t \in Subjects}
                       ELSE {})
    /\ v_refs \in IF v_log.returncode = 0 THEN RefLists ELSE {<<>>}
    /\ v_ancestors \in SUBSET Range(v_refs)
    /\ v_pc = "repo"
    /\ v_tag = <<>>
    /\ v_exit = -1
    /\ v_stdout = <<>>
    /\ v_stderr = <<>>

NextVerify ==
    /\ \/ ensure_repo
       \/ cmd_verify_head
       \/ cmd_verify_baseline
       \/ cmd_verify_ancestor
    /\ UNCHANGED <<v_repo, v_log, v_refs, v_ancestors>>
    /\ UNCHANGED <<doc, cursor, live_highlighter, caret_pos, userState, formats,
                   inline_prev_blocknum, last_event>>
    /\ UNCHANGED windowVars
    /\ UNCHANGED detectVars
    /\ UNCHANGED fileVars
    /\ UNCHANGED <<l_text, l_block_pos, l_prev_state, l_out, l_calls>>

SpecVerify == InitVerify /\ [][NextVerify]_vars

----------------------------------------------------------------------------
(* Specification SpecDetect: one call of detect_srs_ids(text, pattern)        *)
(* (utils.py).  re.findall scans the text from left to right for the matches *)
(* of the pattern that do not overlap and returns, for a pattern with one    *)
(* group, what the group captured in each match, and for a pattern without   *)
(* a group the text of each match.                                           *)

LowerLetters ==
    <<"a", "b", "c", "d", "e", "f", "g", "h", "i", "j", "k", "l", "m",
      "n", "o", "p", "q", "r", "s", "t", "u", "v", "w", "x", "y", "z">>
UpperLetters ==
    <<"A", "B", "C", "D", "E", "F", "G", "H", "I", "J", "K", "L", "M",
      "N", "O", "P", "Q", "R", "S", "T", "U", "V", "W", "X", "Y", "Z">>

\* the character c with its case folded as re.IGNORECASE compares it
fold(c) ==
    IF \E i \in DOMAIN LowerLetters : LowerLetters[i] = c
    THEN UpperLetters[CHOOSE i \in DOMAIN LowerLetters : LowerLetters[i] = c]
    ELSE c

\* the character as the pattern compares it: folded under re.IGNORECASE
seen(c, ignorecase) == IF ignorecase THEN fold(c) ELSE c

\* the class of word characters, which the word boundary of a pattern tells
\* from the others
IsWord(c) == IsUpperAlnum(fold(c)) \/ c = "_"

\* the characters of lit stand in text from offset p on, as the pattern
\* compares them
LitAtCase(text, p, lit, ignorecase) ==
    \A i \in 1..Len(lit) : seen(At(text, p + i - 1), ignorecase) = lit[i]

\* number of characters from offset `from` on in the class of upper-case
\* letters and digits, as the pattern compares them
RECURSIVE ClassRun(_, _, _)
ClassRun(text, from, ignorecase) ==
    IF IsUpperAlnum(seen(At(text, from), ignorecase))
    THEN 1 + ClassRun(text, from + 1, ignorecase)
    ELSE 0

\* a match of a pattern: [a, b) the whole match, [s1, s1 + l1) its group 1
NoFind == [hasMatch |-> FALSE, a |-> 0, b |-> 0, s1 |-> 0, l1 |-> 0]

\* SRS_ID_REGEX of app.py anchored at offset p: a word boundary, Y10K-, two
\* segments of upper-case letters and digits each followed by a dash, one of
\* the six types (group 1), a dash, three digits and a word boundary
SRS_ID_REGEX_at(text, p, ignorecase) ==
    LET n1 == ClassRun(text, p + 5, ignorecase)
        p2 == p + 5 + n1 + 1
        n2 == ClassRun(text, p2, ignorecase)
        p3 == p2 + n2 + 1
        T == {t \in SRS_TYPES : LitAtCase(text, p3, t, ignorecase)
                                 /\ At(text, p3 + Len(t)) = "-"}
    IN  IF /\ ~IsWord(At(text, p - 1))
           /\ LitAtCase(text, p, <<"Y", "1", "0", "K", "-">>, ignorecase)
           /\ n1 >= 1 /\ At(text, p2 - 1) = "-"
           /\ n2 >= 1 /\ At(text, p3 - 1) = "-"
           /\ T # {}
        THEN LET t == CHOOSE t \in T : TRUE
                 p4 == p3 + Len(t) + 1
             IN  IF /\ IsDigit(At(text, p4)) /\ IsDigit(At(text, p4 + 1))
                    /\ IsDigit(At(text, p4 + 2))
                    /\ ~IsWord(At(text, p4 + 3))
                 THEN [hasMatch |-> TRUE, a |-> p, b |-> p4 + 3,
                       s1 |-> p3, l1 |-> Len(t)]
                 ELSE NoFind
        ELSE NoFind

\* the pattern Y10K, which has no group, anchored at offset p
Y10K_at(text, p, ignorecase) ==
    IF LitAtCase(text, p, <<"Y", "1", "0", "K">>, ignorecase)
    THEN [hasMatch |-> TRUE, a |-> p, b |-> p + 4, s1 |-> p, l1 |-> 4]
    ELSE NoFind

\* the patterns passed: the application's SRS_ID_REGEX, a pattern without a
\* group, and a pattern that does not compile (an unclosed parenthesis)
Patterns == {"SRS_ID_REGEX", "Y10K", "("}

compiles(pattern) == pattern # "("

\* the pattern anchored at offset p; a pattern without a group gives its
\* whole match where a pattern with a group gives the group
pattern_at(pattern, text, p, ignorecase) ==
    IF pattern = "SRS_ID_REGEX" THEN SRS_ID_REGEX_at(text, p, ignorecase)
    ELSE Y10K_at(text, p, ignorecase)

\* re.findall(pattern, text, flags) from offset p on
RECURSIVE findall_from(_, _, _, _)
findall_step(pattern, text, p, ignorecase, m) ==
    IF m.hasMatch
    THEN <<SubSeq(text, m.s1 + 1, m.s1 + m.l1)>>
         \o findall_from(pattern, text, m.b, ignorecase)
    ELSE findall_from(pattern, text, p + 1, ignorecase)

findall_from(pattern, text, p, ignorecase) ==
    IF p >= Len(text) THEN <<>>
    ELSE findall_step(pattern, text, p, ignorecase,
                      pattern_at(pattern, text, p, ignorecase))

findall(pattern, text, ignorecase) == findall_from(pattern, text, 0, ignorecase)

\* list(dict.fromkeys(items)): the items without the repetitions, each at its
\* first place; seen_keys are the keys the dict holds already
RECURSIVE fromkeys(_, _)
fromkeys(items, seen_keys) ==
    IF items = <<>> THEN <<>>
    ELSE IF Head(items) \in seen_keys THEN fromkeys(Tail(items), seen_keys)
    ELSE <<Head(items)>> \o fromkeys(Tail(items), seen_keys \cup {Head(items)})

\* Python's "x and y or z" on lists, the empty list being false
and_or(x, y, z) == IF x # <<>> /\ y # <<>> THEN y ELSE z

\* detect_srs_ids matching with the case of the text only
detect_srs_ids_caseSensitive(text, pattern) ==
    IF ~compiles(pattern) THEN <<>>
    ELSE fromkeys(findall(pattern, text, FALSE), {})

\* detect_srs_ids(text, pattern); re.error, raised for a pattern that does
\* not compile, is caught
detect_srs_ids(text, pattern) ==
    IF ~compiles(pattern) THEN <<>>
    ELSE fromkeys(and_or(findall(pattern, text, FALSE),
                         findall(pattern, text, TRUE),
                         findall(pattern, text, FALSE)), {})

\* the pieces the texts are made of
Id_HL_001 == <<"Y", "1", "0", "K", "-", "A", "P", "P", "-", "U", "I", "-", "H", "L", "-", "0", "0", "1">>
Id_LL_002 == <<"Y", "1", "0", "K", "-", "A", "-", "B", "-", "L", "L", "-", "0", "0", "2">>
Id_lower == <<"y", "1", "0", "k", "-", "a", "p", "p", "-", "u", "i", "-", "h", "l", "-", "0", "0", "1">>
Id_mixed == <<"Y", "1", "0", "K", "-", "a", "-", "B", "-", "d", "b", "-", "0", "0", "3">>
Id_FourDigits == <<"Y", "1", "0", "K", "-", "A", "-", "B", "-", "H", "L", "-", "0", "0", "1", "2">>
Word_plain == <<"x", "Y", "1", "0", "K">>
Pieces == {Id_HL_001, Id_LL_002, Id_lower, Id_mixed, Id_FourDigits, Word_plain}

\* largest number of pieces of a text
MaxIds == 2

\* the pieces of ps with a space between them
RECURSIVE join(_)
join(ps) ==
    IF ps = <<>> THEN <<>>
    ELSE IF Len(ps) = 1 THEN ps[1]
    ELSE ps[1] \o <<" ">> \o join(Tail(ps))

\* the texts: up to MaxIds pieces
DetectTexts == {join(ps) : ps \in UNION {[1..n -> Pieces] : n \in 0..MaxIds}}

InitDetect ==
    /\ HostIdle
    /\ LineIdle
    /\ VerifyIdle
    /\ FileIdle
    /\ caret_pos = -1
    /\ d_text \in DetectTexts
    /\ d_pattern \in Patterns
    /\ d_called = FALSE
    /\ d_ids = <<>>

\* the call
call_detect_srs_ids ==
    /\ ~d_called
    /\ d_called' = TRUE
    /\ d_ids' = detect_srs_ids(d_text, d_pattern)
    /\ UNCHANGED <<d_text, d_pattern>>
    /\ UNCHANGED <<doc, cursor, live_highlighter, caret_pos, userState, formats,
                   inline_prev_blocknum, last_event>>
    /\ UNCHANGED windowVars
    /\ UNCHANGED verifyVars
    /\ UNCHANGED fileVars
    /\ UNCHANGED <<l_text, l_block_pos, l_prev_state, l_out, l_calls>>

NextDetect == call_detect_srs_ids

SpecDetect == InitDetect /\ [][NextDetect]_vars

----------------------------------------------------------------------------
(* Specification SpecFile: the editor's text, its modified flag and the      *)
(* files written for it (app.py, MainWindow).  The toolkit sets the          *)
(* document's modified flag when its text is edited and clears it when the   *)
(* editor's content is replaced (clear, setPlainText); nothing else does.    *)

\* the en dash of the default commit message (kept as a name)
EnDash == "ENDASH"

\* what on_git_commit appends to the first ID, and its message without an ID
MsgSuffix == <<" ", EnDash, " ", "uppdaterad kravspec">>
MsgPlain == <<"Uppdaterad kravspec">>

\* the texts typed into the editor
FileTexts ==
    { <<>>,
      Id_HL_001,
      join(<<Id_LL_002, Id_HL_001>>),
      join(<<Id_lower, Id_HL_001>>),
      Word_plain }

\* the history record of a handler
Last(op, asked, wrote) ==
    [op |-> op, asked |-> asked, wrote |-> wrote, clean |-> f_saved]

\* on_save, with chosen telling whether the user picks a path in the dialog of
\* on_save_as and ok whether QSaveFile opens and commits: what it leaves in
\* current_file, the file, f_saved and the status bar.  on_save_as needs a
\* workspace and sets current_file before it saves; _save_to_path ends with
\* update_status when the write is committed.
on_save_result(chosen, ok) ==
    LET reached == f_current_file \/ (f_workspace /\ chosen)
    IN  [current_file |-> reached,
         disk |-> IF reached /\ ok THEN [exists |-> TRUE, text |-> f_text]
                  ELSE f_disk,
         saved |-> (reached /\ ok) \/ f_saved,
         status_srs |-> IF reached /\ ok
                        THEN detect_srs_ids(f_text, "SRS_ID_REGEX")
                        ELSE f_status_srs]

\* the variables no handler of this specification touches
notFileVars ==
    <<doc, cursor, live_highlighter, caret_pos, userState, formats,
      inline_prev_blocknum, last_event, windowVars, verifyVars, detectVars,
      l_text, l_block_pos, l_prev_state, l_out, l_calls>>

\* what is left when on_save is not called
no_save ==
    [current_file |-> f_current_file, disk |-> f_disk, saved |-> f_saved,
     status_srs |-> f_status_srs]

\* the user changes the editor's text to t: the toolkit marks the document
\* modified, on_editor_changed runs update_status
textChanged(t) ==
    /\ t # f_text
    /\ f_text' = t
    /\ f_modified' = TRUE
    /\ f_saved' = FALSE
    /\ f_status_srs' = detect_srs_ids(t, "SRS_ID_REGEX")
    /\ f_last' = Last("edit", FALSE, FALSE)
    /\ UNCHANGED <<f_workspace, f_current_file, f_disk, f_autosave, f_default_msg>>
    /\ UNCHANGED notFileVars

\* 'Save'
on_save(chosen, ok) ==
    /\ \E r \in {on_save_result(chosen, ok)} :
          /\ f_current_file' = r.current_file
          /\ f_disk' = r.disk
          /\ f_saved' = r.saved
          /\ f_status_srs' = r.status_srs
    /\ f_last' = Last("save", FALSE, FALSE)
    /\ UNCHANGED <<f_text, f_modified, f_workspace, f_autosave, f_default_msg>>
    /\ UNCHANGED notFileVars

\* 'New': maybe_save returns True for an unmodified document; for a modified
\* one it asks, saves on Yes, and returns False on Cancel, which ends on_new.
\* Then the editor is cleared (on_editor_changed runs update_status) and
\* current_file is dropped.
on_new(answer, chosen, ok) ==
    /\ f_last' = Last("new", f_modified, FALSE)
    /\ IF f_modified /\ answer = "Cancel"
       THEN UNCHANGED <<f_text, f_modified, f_current_file, f_disk, f_saved,
                        f_status_srs>>
       ELSE /\ f_text' = <<>>
            /\ f_modified' = FALSE
            /\ f_current_file' = FALSE
            /\ f_disk' = IF f_modified /\ answer = "Yes"
                         THEN on_save_result(chosen, ok).disk
                         ELSE f_disk
            /\ f_saved' = FALSE
            /\ f_status_srs' = detect_srs_ids(<<>>, "SRS_ID_REGEX")
    /\ UNCHANGED <<f_workspace, f_autosave, f_default_msg>>
    /\ UNCHANGED notFileVars

\* 'Commit', up to the commit itself: without a workspace it only tells so;
\* a modified document is saved first; the dialog gets the default message,
\* the first detected ID and the suffix or the plain message; when the dialog
\* is accepted the commit is made and update_status runs
on_git_commit(chosen, ok, accepted) ==
    /\ f_last' = Last("commit", FALSE, FALSE)
    /\ IF ~f_workspace
       THEN UNCHANGED <<f_current_file, f_disk, f_saved, f_status_srs, f_default_msg>>
       ELSE \E r \in {IF f_modified THEN on_save_result(chosen, ok) ELSE no_save},
               ids \in {detect_srs_ids(f_text, "SRS_ID_REGEX")} :
               /\ f_current_file' = r.current_file
               /\ f_disk' = r.disk
               /\ f_saved' = r.saved
               /\ f_default_msg' = IF ids # <<>> THEN ids[1] \o MsgSuffix
                                   ELSE MsgPlain
               /\ f_status_srs' = IF accepted THEN ids ELSE r.status_srs
    /\ UNCHANGED <<f_text, f_modified, f_workspace, f_autosave>>
    /\ UNCHANGED notFileVars

\* the autosave timer fires: a modified document is written to autosave_path
on_autosave ==
    /\ f_last' = Last("autosave", FALSE, f_modified)
    /\ f_autosave' = IF f_modified THEN [exists |-> TRUE, text |-> f_text]
                     ELSE f_autosave
    /\ UNCHANGED <<f_text, f_modified, f_workspace, f_current_file, f_disk,
                   f_status_srs, f_default_msg, f_saved>>
    /\ UNCHANGED notFileVars

\* the window after construction, with or without a workspace
InitFile ==
    /\ HostIdle
    /\ LineIdle
    /\ VerifyIdle
    /\ DetectIdle
    /\ caret_pos = -1
    /\ f_text = <<>>
    /\ f_modified = FALSE
    /\ f_workspace \in BOOLEAN
    /\ f_current_file = FALSE
    /\ f_disk = NoFile
    /\ f_autosave = NoFile
    /\ f_status_srs = <<>>
    /\ f_default_msg = <<>>
    /\ f_saved = FALSE
    /\ f_last = [op |-> "init", asked |-> FALSE, wrote |-> FALSE, clean |-> FALSE]

NextFile ==
    \/ \E t \in FileTexts : textChanged(t)
    \/ \E chosen \in BOOLEAN, ok \in BOOLEAN : on_save(chosen, ok)
    \/ \E answer \in {"Yes", "No", "Cancel"}, chosen \in BOOLEAN, ok \in BOOLEAN :
          on_new(answer, chosen, ok)
    \/ \E chosen \in BOOLEAN, ok \in BOOLEAN, accepted \in BOOLEAN :
          on_git_commit(chosen, ok, accepted)
    \/ on_autosave

SpecFile == InitFile /\ [][NextFile]_vars

----------------------------------------------------------------------------
(* Properties of one block (checked under SpecLine) *)

Has(anns, a) == \E i \in DOMAIN anns : anns[i] = a

\* the stored result of the block was computed with the current caret_pos
LineDone == l_calls >= 1

\* the block was processed outside a fence and is no fence line, so the
\* single-line rules were applied
LinePlain == LineDone /\ l_prev_state # 1 /\ ~fence_rx(l_text)

\* the marker runs [s, e) of a line, line-relative, by the rule that owns them
MarkerRuns(text) ==
    LET h == rx_heading(text)
        ul == rx_ul(text)
        ol == rx_ol(text)
        q == rx_quote(text)
    IN  (IF h.hasMatch
         THEN {[rule |-> "heading", s |-> h.indent, e |-> h.indent + h.hashes + h.space]}
         ELSE {})
        \cup (IF ul.hasMatch
              THEN {[rule |-> "lists", s |-> ul.indent, e |-> ul.indent + 2]}
              ELSE {})
        \cup (IF ol.hasMatch /\ ~ul.hasMatch
              THEN {[rule |-> "lists", s |-> ol.indent, e |-> ol.indent + ol.digits + 2]}
              ELSE {})
        \cup (IF q.hasMatch
              THEN {[rule |-> "blockquote", s |-> q.indent,
                     e |-> q.indent + 1 + (IF At(text, q.indent + 1) = " " THEN 1 ELSE 0)]}
              ELSE {})

\* the spans [start, end) that the given rule dimmed
DimmedBy(anns, rule) ==
    {<<anns[i].start, anns[i].start + anns[i].count>> :
        i \in {j \in DOMAIN anns : anns[j].rule = rule /\ anns[j].fmt = "fmt_marker"}}

\* the emphasis matches of a line with their delimiter widths
EmphasisMatches(text) ==
    LET Of(kind, width) ==
            LET ms == globalMatch(kind, text, 0)
            IN  {[kind |-> kind, width |-> width, a |-> ms[i].a, b |-> ms[i].b,
                  s1 |-> ms[i].s1, l1 |-> ms[i].l1] : i \in DOMAIN ms}
    IN  Of("bold", 2) \cup Of("italic", 1) \cup Of("code", 1)

\* C2 (as claimed): for every bold, italic and inline-code match [a, b) the
\* delimiters are left undimmed exactly when lineStart + a <= caret <
\* lineStart + b; a caret at lineStart + b leaves them dimmed.
C2_EmphasisCaretHalfOpen ==
    LinePlain =>
        \A m \in EmphasisMatches(l_text) :
            Has(l_out.anns, setFormat(m.a, m.width, "fmt_marker", 0, "emphasis"))
            <=> ~(l_block_pos + m.a <= caret_pos /\ caret_pos < l_block_pos + m.b)

\* C3: the marker run [s, e) of a heading, list or blockquote line is dimmed
\* for every caret with caret < lineStart + s or caret >= lineStart + e, and
\* left undimmed for every caret with lineStart + s <= caret < lineStart + e.
C3_MarkerDimmedIffCaretOutside ==
    LinePlain =>
        \A r \in MarkerRuns(l_text) :
            DimmedBy(l_out.anns, r.rule) =
                IF l_block_pos + r.s <= caret_pos /\ caret_pos < l_block_pos + r.e
                THEN {}
                ELSE {<<r.s, r.e>>}

\* C3's example: "# Title" at offset 10, marker at [10, 12), caret at 12
C3_Witness ==
    /\ LinePlain
    /\ l_text = <<"#", " ", "T", "i", "t", "l", "e">>
    /\ l_block_pos = 10
    /\ caret_pos = 12
    /\ DimmedBy(l_out.anns, "heading") = {<<0, 2>>}

\* the fence test as claimed: at most 3 leading white space, then 3 backticks
ClaimedFence(text) ==
    LET k == SpaceRun(text, 0)
    IN  k <= 3 /\ At(text, k) = Backtick /\ At(text, k + 1) = Backtick
               /\ At(text, k + 2) = Backtick

\* C4 (as claimed): a line toggles the fence state exactly when, behind at
\* most 3 leading spaces, it starts with three backticks; three backticks
\* behind 4 or more leading white space do not toggle it.
C4_FenceIgnoresAtMost3Spaces ==
    LineDone =>
        ((l_out.state = 1) # (l_prev_state = 1) <=> ClaimedFence(l_text))

\* C5: a line processed inside a fence, or one that opens a fence, gets the
\* fence-code format over [0, len(text)) and nothing else, whatever the caret.
C5_FenceLineOnlyCode ==
    (LineDone /\ (l_prev_state = 1 \/ l_out.state = 1)) =>
        /\ l_out.anns # <<>>
        /\ \A i \in DOMAIN l_out.anns :
              l_out.anns[i] = setFormat(0, Len(l_text), "fmt_code", 0, "fence")

\* a heading with bold text, processed inside a fence with the caret on it
C5_Witness ==
    /\ LineDone
    /\ l_prev_state = 1
    /\ rx_heading(l_text).hasMatch
    /\ globalMatch("bold", l_text, 0) # <<>>
    /\ caret_pos = l_block_pos + 1
    /\ l_out = [anns |-> <<setFormat(0, Len(l_text), "fmt_code", 0, "fence")>>,
                state |-> 1]

\* C8: setCaretPosition only records the caret: a step that changes caret_pos
\* changes neither the annotations nor the block state; they follow the new
\* caret only when the block is next reprocessed.
C8_SetCaretOnlyRecords ==
    [][caret_pos' # caret_pos => l_out' = l_out]_vars

\* the caret was moved and the block still carries the result of the old caret
C8_Witness ==
    /\ l_calls = 0
    /\ l_out.state # -1
    /\ l_out # highlightBlock(l_text, l_block_pos, l_prev_state, caret_pos)

Overlap(x, y) ==
    /\ x.count > 0 /\ y.count > 0
    /\ x.start < y.start + y.count /\ y.start < x.start + x.count

EmphasisCalls(anns) == {i \in DOMAIN anns : anns[i].rule = "emphasis"}

\* C10 (as claimed): no two emphasis spans of a line (inner spans or dimmed
\* delimiter spans) overlap, and the example line gets exactly three inner
\* spans, bold, italic and code.
C10_EmphasisSpansDisjoint ==
    LinePlain =>
        /\ \A i, j \in EmphasisCalls(l_out.anns) :
              i # j => ~Overlap(l_out.anns[i], l_out.anns[j])
        /\ l_text = ExampleLine =>
              {<<l_out.anns[i].fmt, l_out.anns[i].start, l_out.anns[i].count>> :
                  i \in {j \in EmphasisCalls(l_out.anns) : l_out.anns[j].fmt # "fmt_marker"}}
              = {<<"fmt_bold", 2, 4>>, <<"fmt_italic", 14, 6>>, <<"fmt_code", 27, 4>>}

\* the line-level rules (heading, lists, blockquote) that made a setFormat call
LineRules(anns) ==
    {anns[i].rule : i \in DOMAIN anns} \cap {"heading", "lists", "blockquote"}

NotAList == <<"#", " ", "-", " ", "n", "o", "t", " ", "a", " ", "l", "i", "s", "t">>

\* C11: at most one of heading, unordered list, ordered list and blockquote
\* styles a line: the setFormat calls of the line-level rules come from one
\* rule, the unordered and the ordered pattern never both match, and
\* "# - not a list" is styled by the heading rule only.
C11_OneLineLevelRule ==
    LinePlain =>
        /\ Cardinality(LineRules(l_out.anns)) <= 1
        /\ ~(rx_ul(l_text).hasMatch /\ rx_ol(l_text).hasMatch)
        /\ l_text = NotAList =>
              /\ l_out.anns # <<>>
              /\ \A i \in DOMAIN l_out.anns : l_out.anns[i].rule = "heading"

\* "# - not a list" processed with the caret away from it: marker and content
\* of a level-1 heading, nothing from the list rule
C11_Witness ==
    /\ LinePlain
    /\ l_text = NotAList
    /\ caret_pos = -1
    /\ l_out.anns = <<setFormat(0, 2, "fmt_marker", 0, "heading"),
                      setFormat(2, 12, "fmt_heading", 22, "heading")>>

\* the five lines of the end-to-end scenario, the fence state each is processed
\* in and the fence state it leaves
ScenarioLines ==
    << <<"#", " ", "T", "i", "t", "l", "e">>,
       <<Backtick, Backtick, Backtick, "p", "y">>,
       <<"x", " ", "=", " ", "1">>,
       <<Backtick, Backtick, Backtick>>,
       <<"-", " ", "i", "t", "e", "m", " ", "o", "n", "e">> >>
ScenarioIn == <<0, 0, 1, 1, 0>>
ScenarioOut == <<0, 1, 1, 0, 0>>

\* the styling the scenario expects of each line, as a set of setFormat calls
ScenarioAnns ==
    << {setFormat(0, 2, "fmt_marker", 0, "heading"),
        setFormat(2, 5, "fmt_heading", 22, "heading")},
       {setFormat(0, 5, "fmt_code", 0, "fence")},
       {setFormat(0, 5, "fmt_code", 0, "fence")},
       {setFormat(0, 3, "fmt_code", 0, "fence")},
       {setFormat(0, 2, "fmt_marker", 0, "lists")} >>

\* the caret is not on the block
CaretElsewhere ==
    caret_pos < l_block_pos \/ caret_pos > l_block_pos + Len(l_text)

\* C13: the five lines "# Title", the fence with py, "x = 1", the fence and
\* "- item one", processed in order from state 0 with the caret elsewhere,
\* leave the fence states 0, 1, 1, 0, 0; line 0 has "# " dimmed and "Title" as
\* level-1 heading content, lines 1-3 are code as a whole, line 4 has "- "
\* dimmed and nothing else.
C13_EndToEndScenario ==
    /\ \A k \in 1..4 : ScenarioIn[k + 1] = ScenarioOut[k]
    /\ \A k \in 1..5 :
          (/\ LineDone
           /\ l_text = ScenarioLines[k]
           /\ (l_prev_state = 1) = (ScenarioIn[k] = 1)
           /\ CaretElsewhere)
          => /\ l_out.state = ScenarioOut[k]
             /\ {l_out.anns[i] : i \in DOMAIN l_out.anns} = ScenarioAnns[k]

\* the closing fence of the scenario, processed inside the fence with the
\* caret elsewhere: code as a whole, and the fence is left
C13_Witness ==
    /\ LineDone
    /\ l_text = ScenarioLines[4]
    /\ l_prev_state = 1
    /\ CaretElsewhere
    /\ l_out.state = 0
    /\ Has(l_out.anns, setFormat(0, 3, "fmt_code", 0, "fence"))

\* the text matches no construct: no fence token, heading, list marker,
\* blockquote marker, bold, italic or inline code
NoConstruct(text) ==
    /\ ~fence_rx(text)
    /\ ~rx_heading(text).hasMatch
    /\ ~rx_ul(text).hasMatch
    /\ ~rx_ol(text).hasMatch
    /\ ~rx_quote(text).hasMatch
    /\ EmphasisMatches(text) = {}

\* every setFormat call lies within the block and the block state is 0 or 1
WellFormed(text, out) ==
    /\ out.state \in {0, 1}
    /\ \A i \in DOMAIN out.anns :
          /\ out.anns[i].start >= 0
          /\ out.anns[i].count >= 0
          /\ out.anns[i].start + out.anns[i].count <= Len(text)

\* C14 (as claimed): reprocessing never fails, and a line whose text matches
\* no construct gets zero annotations and leaves the fence state it came in.
C14_NoConstructNoAnnotation ==
    LineDone =>
        /\ WellFormed(l_text, l_out)
        /\ NoConstruct(l_text) =>
              /\ l_out.anns = <<>>
              /\ (l_out.state = 1) = (l_prev_state = 1)

\* C14 (amended): reprocessing never fails; a line whose text matches no
\* construct leaves the fence state it came in, gets zero annotations when it
\* is processed outside a fence, and the one whole-line code annotation when
\* it is processed inside a fence.
C14_NoConstructOutsideFence ==
    LineDone =>
        /\ WellFormed(l_text, l_out)
        /\ NoConstruct(l_text) =>
              /\ (l_out.state = 1) = (l_prev_state = 1)
              /\ l_out.anns = IF l_prev_state = 1
                              THEN <<setFormat(0, Len(l_text), "fmt_code", 0, "fence")>>
                              ELSE <<>>

\* "x = 1" processed inside a fence: one annotation, the fence goes on
C14_Witness ==
    /\ LineDone
    /\ l_text = <<"x", " ", "=", " ", "1">>
    /\ NoConstruct(l_text)
    /\ l_prev_state = 1
    /\ l_out = [anns |-> <<setFormat(0, 5, "fmt_code", 0, "fence")>>, state |-> 1]

\* the inner format of an emphasis kind
InnerFmt(kind) ==
    CASE kind = "bold" -> "fmt_bold" [] kind = "italic" -> "fmt_italic"
      [] OTHER -> "fmt_code"

\* the setFormat calls the emphasis matches of the whole text ask for under
\* the caret: the inner span of every match, and its two delimiters when the
\* caret is off the match
EmphasisExpected(text, block_pos, caret) ==
    UNION {
        {setFormat(m.s1, m.l1, InnerFmt(m.kind), 0, "emphasis")}
        \cup (IF block_pos + m.a <= caret /\ caret <= block_pos + m.b
              THEN {}
              ELSE {setFormat(m.a, m.width, "fmt_marker", 0, "emphasis"),
                    setFormat(m.b - m.width, m.width, "fmt_marker", 0, "emphasis")})
        : m \in EmphasisMatches(text)}

\* the line-level rule whose pattern the text matches, "none" without one
LineLevel(text) ==
    CASE rx_heading(text).hasMatch -> "heading"
      [] rx_ul(text).hasMatch \/ rx_ol(text).hasMatch -> "lists"
      [] rx_quote(text).hasMatch -> "blockquote"
      [] OTHER -> "none"

\* C15: outside a fence the bold, italic and inline-code matches are searched
\* over the whole text of the line whichever line-level rule fired: the
\* emphasis calls made are the same function of text and caret for a heading,
\* a list item, a blockquote and a line with no line-level rule.
C15_EmphasisWhateverLineRule ==
    LinePlain =>
        \A rule \in {"heading", "lists", "blockquote", "none"} :
            LineLevel(l_text) = rule =>
                {l_out.anns[i] : i \in EmphasisCalls(l_out.anns)}
                = EmphasisExpected(l_text, l_block_pos, caret_pos)

\* a heading with bold text: heading marker, heading content, and the bold
\* match found in the heading's content
C15_Witness ==
    /\ LinePlain
    /\ l_text = <<"#", " ", "*", "*", "a", "*", "*">>
    /\ caret_pos = -1
    /\ Has(l_out.anns, setFormat(0, 2, "fmt_marker", 0, "heading"))
    /\ Has(l_out.anns, setFormat(4, 1, "fmt_bold", 0, "emphasis"))
    /\ Has(l_out.anns, setFormat(2, 2, "fmt_marker", 0, "emphasis"))

\* the marker span [k, e) of a list line as claimed, k its number of leading
\* white space characters: the bullet and one separator, or the d digits, the
\* dot or parenthesis and one separator; {} when the line is no list line
ClaimedListSpan(text) ==
    LET k == SpaceRun(text, 0)
        d == DigitRun(text, k)
    IN  IF k <= 3 /\ At(text, k) \in {"-", "*"} /\ IsSpace(At(text, k + 1))
        THEN {<<k, k + 2>>}
        ELSE IF k <= 3 /\ d >= 1 /\ At(text, k + d) \in {".", ")"}
                /\ IsSpace(At(text, k + d + 1))
        THEN {<<k, k + d + 2>>}
        ELSE {}

\* C20: on a list line with k (0..3) leading white space the list rule dims
\* exactly [k, k+2) for an unordered item and [k, k+d+2) for an ordered item
\* with d digits, unless the caret is within that span, and sets nothing else.
C20_ListMarkerSpan ==
    LinePlain =>
        \A sp \in ClaimedListSpan(l_text) :
            {l_out.anns[i] : i \in {j \in DOMAIN l_out.anns : l_out.anns[j].rule = "lists"}}
            = IF l_block_pos + sp[1] <= caret_pos /\ caret_pos < l_block_pos + sp[2]
              THEN {}
              ELSE {setFormat(sp[1], sp[2] - sp[1], "fmt_marker", 0, "lists")}

\* the ordered item "12) a" behind two spaces, caret on its content: the span
\* [2, 6) is dimmed
C20_Witness ==
    /\ LinePlain
    /\ l_text = <<" ", " ", "1", "2", ")", " ", "a">>
    /\ caret_pos = l_block_pos + 6
    /\ l_out.anns = <<setFormat(2, 4, "fmt_marker", 0, "lists")>>

\* the marker span [s, e) of a blockquote line as claimed: behind 0-3 leading
\* spaces the > and the single space after it when there is one; {} when the
\* line is no blockquote line
ClaimedQuoteSpan(text) ==
    LET k == CharRun(text, 0, " ")
    IN  IF k <= 3 /\ At(text, k) = ">"
        THEN {[s |-> k, e |-> k + 1 + (IF At(text, k + 1) = " " THEN 1 ELSE 0)]}
        ELSE {}

\* C21: on a blockquote line the blockquote rule dims the marker span (the >
\* and the single space after it when present) unless the caret is inside it,
\* styles all the text after the marker span as quoted text whenever that
\* text is not empty, and sets nothing else.
C21_BlockquoteSpans ==
    LinePlain =>
        \A q \in ClaimedQuoteSpan(l_text) :
            {l_out.anns[i] : i \in {j \in DOMAIN l_out.anns :
                                        l_out.anns[j].rule = "blockquote"}}
            = (IF l_block_pos + q.s <= caret_pos /\ caret_pos < l_block_pos + q.e
               THEN {}
               ELSE {setFormat(q.s, q.e - q.s, "fmt_marker", 0, "blockquote")})
              \cup (IF Len(l_text) > q.e
                    THEN {setFormat(q.e, Len(l_text) - q.e, "fmt_quote", 0,
                                    "blockquote")}
                    ELSE {})

----------------------------------------------------------------------------
(* Properties of the document and the host (checked under Spec) *)

\* C1: with the lines processed in increasing order from a not-in-fence
\* state, the fence state after line i is the fence state after line i-1 XOR
\* (line i matches the fence pattern): a fence line flips it, every other
\* line passes it through.
C1_FenceFold ==
    live_highlighter =>
        \A i \in 1..Len(doc) :
            userState[i] = ((IF i = 1 THEN 0 ELSE userState[i - 1])
                            + (IF fence_rx(doc[i]) THEN 1 ELSE 0)) % 2

\* a fence opened on the first line and closed on the third
C1_Witness ==
    /\ live_highlighter
    /\ doc = << <<Backtick, Backtick, Backtick>>, <<"a">>,
                <<Backtick, Backtick, Backtick>> >>
    /\ userState = <<1, 1, 0>>

\* C6 (as claimed): when a caret move reprocesses more than one line, the lines
\* are reprocessed in non-decreasing line-index order, moving down or up.
C6_CaretEventInLineOrder ==
    (last_event.name = "cursor" /\ Len(last_event.blocks) > 1) =>
        \A i \in 1..(Len(last_event.blocks) - 1) :
            last_event.blocks[i] <= last_event.blocks[i + 1]

\* C7: a caret move reprocesses at most two lines, the line the caret was on
\* and the line it is now on; the annotations and the fence state of every
\* other line are left as they were.
C7_CaretMoveTouchesTwoLines ==
    [][cursor' # cursor =>
          LET was == blockNumber(doc, cursor)
              now == blockNumber(doc, cursor')
          IN  /\ Len(last_event'.blocks) <= 2
              /\ \A i \in DOMAIN last_event'.blocks :
                    last_event'.blocks[i] \in {was, now}
              /\ \A n \in 0..(Len(doc) - 1) :
                    n \notin {was, now} =>
                        /\ userState'[n + 1] = userState[n + 1]
                        /\ formats'[n + 1] = formats[n + 1]]_vars

\* a caret move across lines reprocessed two lines of a three-line document
\* whose third line carries annotations
C7_Witness ==
    /\ live_highlighter
    /\ last_event.name = "cursor"
    /\ Len(last_event.blocks) = 2
    /\ Len(doc) = 3
    /\ \E n \in 0..2 :
          /\ \A i \in DOMAIN last_event.blocks : last_event.blocks[i] # n
          /\ formats[n + 1] # <<>>

----------------------------------------------------------------------------
(* Properties of the edited document (checked under SpecEdit) *)

\* the left-to-right fence fold: the fence state after the first n lines of d
RECURSIVE FenceFold(_, _)
FenceFold(d, n) ==
    IF n = 0 THEN 0
    ELSE (FenceFold(d, n - 1) + (IF fence_rx(d[n]) THEN 1 ELSE 0)) % 2

C19_AnnotationsFollowCaret ==
    live_highlighter =>
        \A n \in 0..(Len(doc) - 1) :
            formats[n + 1] =
                highlightBlock(doc[n + 1], position(doc, n),
                               IF n = 0 THEN -1 ELSE userState[n], caret_pos).anns

----------------------------------------------------------------------------
(* Properties of the view actions (checked under SpecView) *)

\* C16 (as claimed): after any sequence of toggles of 'Live Inline Markdown',
\* 'Realtime Markdown Preview' and 'Split View', act_inline_live and
\* act_live_preview are never both checked.
C16_InlineExcludesPreview == ~(act_inline_live /\ act_live_preview)

\* C17 (as claimed): after any sequence of toggles of the view actions,
\* act_split_view and act_live_preview are never both checked.
C17_SplitExcludesPreview == ~(act_split_view /\ act_live_preview)

\* C22: at most one highlighter is attached to the editor's document: no
\* sequence of toggles of 'Live Inline Markdown' and 'Syntax highlighting'
\* leaves the normal and the live highlighter both attached.
C22_OneHighlighterAttached == ~(highlighter_attached /\ live_highlighter)

\* C25: the normal highlighter is attached only while 'Syntax highlighting'
\* is checked and inline live is off.
C25_NormalOnlyWhileChecked ==
    highlighter_attached => (act_toggle_md /\ ~act_inline_live)

\* C26: the editor pane is visible exactly when 'Realtime Markdown Preview'
\* is unchecked, the preview pane exactly when that action or the split view
\* is checked, and so at least one pane is visible.
C26_PanesFollowToggles ==
    /\ editor_visible <=> ~act_live_preview
    /\ preview_visible <=> (act_live_preview \/ act_split_view)
    /\ editor_visible \/ preview_visible

\* the full preview checked on top of the split view and of inline live: the
\* editor is hidden, the preview shown
C26_Witness ==
    /\ last_event.name = "toggle_preview"
    /\ act_split_view /\ act_live_preview /\ act_inline_live
    /\ ~editor_visible /\ preview_visible

----------------------------------------------------------------------------
(* Properties of 'git req verify' (checked under SpecVerify) *)

\* the subjects that contain a strict SRS-ID
StrictSubjects == {SubjStrict, SubjStrictInside, SubjFourDigits}

IsBaselineTag(t) == t \in BaselineTags

\* C18: a finished 'git req verify' run in a repository has printed
\* "verify: OK" and exits 0 only if HEAD's subject contains a strict SRS-ID,
\* a baseline/* tag exists and the most recently tagged one is an ancestor of
\* HEAD; if one of the three fails it has printed an error and exits 1.
C18_VerifyOnlyIfAllThree ==
    (v_pc = "done" /\ v_exit # -1) =>
        LET baselines == SelectSeq(v_refs, IsBaselineTag)
        IN  IF /\ v_log.returncode = 0
               /\ v_log.stdout \in StrictSubjects
               /\ baselines # <<>>
               /\ Head(baselines) \in v_ancestors
            THEN v_exit = 0 /\ v_stdout = <<"verify: OK">> /\ v_stderr = <<>>
            ELSE v_exit = 1 /\ v_stdout = <<>> /\ Len(v_stderr) = 1

\* a run that succeeded with two baselines of which only the latest is an
\* ancestor of HEAD
C18_Witness ==
    /\ v_pc = "done"
    /\ v_exit = 0
    /\ Len(v_refs) = 2
    /\ v_refs[2] \in BaselineTags
    /\ v_ancestors = {v_refs[1]}
    /\ v_tag = v_refs[1]

----------------------------------------------------------------------------
(* Properties of the incoming block state (checked under SpecLineStates) *)

\* C28: every call of highlightBlock leaves the line with the state 0 or 1,
\* whatever the incoming state, and an incoming state other than 1 (the
\* toolkit's -1 included) gives what the incoming state 0 gives.
C28_OutgoingStateIsZeroOrOne ==
    LineDone =>
        /\ l_out.state \in {0, 1}
        /\ l_prev_state # 1 =>
               l_out = highlightBlock(l_text, l_block_pos, 0, caret_pos)

\* a fence line processed with the incoming state 2 opens a fence, and a
\* plain line with the incoming state 7 is left outside
C28_Witness ==
    /\ LineDone
    /\ \/ l_prev_state = 2 /\ fence_rx(l_text) /\ l_out.state = 1
       \/ l_prev_state = 7 /\ ~fence_rx(l_text) /\ l_out.state = 0

----------------------------------------------------------------------------
(* Properties of detect_srs_ids (checked under SpecDetect) *)

\* the items of a list without the repetitions, in the order of their first
\* occurrences
FirstOccurrences(items) ==
    LET I == {i \in DOMAIN items : \A j \in 1..(i - 1) : items[j] # items[i]}
        nth(k) == CHOOSE i \in I : Cardinality({j \in I : j < i}) = k - 1
    IN  [k \in 1..Cardinality(I) |-> items[nth(k)]]

\* C23: when the case-sensitive search finds at least one match the result is
\* the list of the case-insensitive matches without repetitions, in the order
\* of their first occurrences; when it finds none the result is the empty
\* list; when the pattern does not compile the result is the empty list.
C23_OneCasePolicy ==
    d_called =>
        d_ids = IF ~compiles(d_pattern) THEN <<>>
                ELSE IF findall(d_pattern, d_text, FALSE) # <<>>
                THEN FirstOccurrences(findall(d_pattern, d_text, TRUE))
                ELSE <<>>

\* a text whose first ID is in lower case and whose second is in upper case:
\* the case-sensitive search finds one, both are returned
C23_Witness ==
    /\ d_called
    /\ d_pattern = "Y10K"
    /\ d_text = join(<<Id_lower, Id_HL_001>>)
    /\ d_ids = << <<"y", "1", "0", "k">>, <<"Y", "1", "0", "K">> >>

----------------------------------------------------------------------------
(* Properties of the document's files (checked under SpecFile) *)

\* the SRS-IDs of a text in full: the text of every match of SRS_ID_REGEX
FullIds(text, ignorecase) ==
    {SubSeq(text, m.a + 1, m.b) :
        m \in {m \in {SRS_ID_REGEX_at(text, p, ignorecase) : p \in 0..Len(text)} :
                  m.hasMatch}}

\* the first SRS-ID of a text in full
FirstFullId(text) ==
    LET P == {p \in 0..Len(text) : SRS_ID_REGEX_at(text, p, FALSE).hasMatch}
        m == SRS_ID_REGEX_at(text, CHOOSE p \in P : \A q \in P : p <= q, FALSE)
    IN  SubSeq(text, m.a + 1, m.b)

\* C24: the IDs detected in the document are full SRS-IDs: the status bar
\* lists full IDs, and the message on_git_commit proposes for a document with
\* an SRS-ID starts with the first full SRS-ID of the document.
C24_FullIdsDetected ==
    /\ \A i \in DOMAIN f_status_srs : f_status_srs[i] \in FullIds(f_text, TRUE)
    /\ (f_last.op = "commit" /\ f_workspace /\ FullIds(f_text, FALSE) # {}) =>
           f_default_msg = FirstFullId(f_text) \o MsgSuffix

\* C27: after a save that succeeded, with no edit since, the document is not
\* modified: maybe_save does not ask and the autosave timer writes nothing.
C27_SavedIsUnmodified ==
    /\ f_saved => ~f_modified
    /\ f_last.clean => (~f_last.asked /\ ~f_last.wrote)

====
